---------------------------- MODULE Spec2Model ----------------------------
(***************************************************************************)
(* A model of the binary codec layer of MIDIcurator's scripts:             *)
(*   scripts/tag-vp-midi.py          VLQ codec, event-stream codec,        *)
(*                                   metadata patcher (tag_file)           *)
(*   scripts/analyze-vp-intensity.py note assembler (parse_notes)          *)
(*   scripts/dump-sequ.py            chunk container reader                *)
(*                                                                         *)
(* A byte is an integer in 0..255, a bytes object a sequence of bytes.     *)
(* Python positions are 0-based and are kept 0-based here: At(data, pos)   *)
(* is data[pos], Slice(data, a, b) is data[a:b].  A Python exception is a  *)
(* result whose ok field is FALSE.                                         *)
(***************************************************************************)
EXTENDS Integers, Sequences, FiniteSets, TLC

VARIABLES
    pc,           \* position of the running script
    \* ---- VLQ codec (tag-vp-midi.py read_varlen / write_varlen)
    value,        \* write_varlen's argument
    enc,          \* write_varlen(value)
    dec,          \* read_varlen(enc, 0)
    \* ---- event-stream codec (tag-vp-midi.py parse_events / encode_events)
    track,        \* the track payload first handed to parse_events
    data,         \* parse_events' buffer
    pos,          \* parse_events' read position
    end,          \* parse_events' end position
    time,         \* parse_events' running absolute tick
    last_status,  \* parse_events' running status
    events,       \* parse_events' event list
    encoded,      \* the outputs of encode_events so far, oldest first
    \* ---- metadata patcher (tag-vp-midi.py tag_file; it also uses data,
    \*      pos and events above for its locals of these names)
    stem,         \* path.stem
    dry_run,      \* tag_file's argument
    file,         \* the bytes of the file at path
    header,       \* data[:8 + hlen]
    ppq,          \* ticks per quarter note read from the header
    num_bars,     \* compute_num_bars(events, ppq)
    new_events,   \* the rebuilt event list
    has_leadsheet,
    file_meta_updated,
    track_bytes,  \* encode_events(new_events)
    new_data,     \* the new file image
    ret,          \* what tag_file returned
    \* ---- note assembler (analyze-vp-intensity.py parse_notes; it also
    \*      uses file, data, pos, end, time, last_status, ppq and num_bars)
    tpos,         \* parse_notes' read position
    active,       \* pitch -> (onset_tick, velocity) of the sounding notes
    notes,        \* the notes emitted so far
    nret,         \* what parse_notes returned
    \* ---- chunk reader (dump-sequ.py read_aiff_chunks; it also uses data
    \*      and pos)
    chunks,       \* ck_id -> payload
    \* ---- batch driver (tag-vp-midi.py main; it also uses dry_run)
    midi_files,   \* the directory: (stem, bytes) of each file, sorted by name
    idx,          \* how many files the for loop has taken
    ok_count,
    skip_count,
    printed,      \* the lines main printed: (stem, marker, message)
    \* ---- record scanner (dump-sequ.py iter_sequ_records; it also uses data)
    off,          \* the offset the for loop is at
    records,      \* the records yielded so far
    \* ---- track parser (dump-sequ.py parse_midi_track; it also uses data,
    \*      pos and events)
    tick,
    running_status,
    pending_delta

vlqVars == <<value, enc, dec>>
codecVars == <<track, data, pos, end, time, last_status, events, encoded>>
tagVars == <<stem, dry_run, file, header, ppq, num_bars, new_events,
             has_leadsheet, file_meta_updated, track_bytes, new_data, ret>>
notesVars == <<tpos, active, notes, nret>>
aiffVars == <<chunks>>
mainVars == <<midi_files, idx, ok_count, skip_count, printed>>
sequVars == <<off, records>>
mtrkVars == <<tick, running_status, pending_delta>>
vars == <<pc, vlqVars, codecVars, tagVars, notesVars, aiffVars, mainVars, sequVars,
          mtrkVars>>

----------------------------------------------------------------------------
(* Python's bytes and integer operations.                                  *)

\* data[pos] is an IndexError when pos >= len(data)
InRange(buf, p) == p >= 0 /\ p < Len(buf)

At(buf, p) == buf[p + 1]

Min(a, b) == IF a <= b THEN a ELSE b

Max(a, b) == IF a >= b THEN a ELSE b

\* data[a:b] for 0 <= a: a slice never raises, it is cut at len(data)
Slice(buf, a, b) ==
    IF Min(b, Len(buf)) <= a THEN << >>
    ELSE SubSeq(buf, a + 1, Min(b, Len(buf)))

\* bytes(reversed(result))
Reversed(s) == [i \in 1..Len(s) |-> s[Len(s) + 1 - i]]

----------------------------------------------------------------------------
(* Variable-length quantities.                                             *)

VarlenError == [ok |-> FALSE, value |-> 0, pos |-> 0]

\* The while True loop of read_varlen, entered with the locals (value, pos).
RECURSIVE read_varlen_loop(_, _, _)
read_varlen_loop(buf, p, val) ==
    IF ~InRange(buf, p) THEN VarlenError
    ELSE LET b  == At(buf, p)
             v2 == val * 128 + (b % 128)       \* (value << 7) | (b & 0x7F)
         IN  IF b < 128                          \* not (b & 0x80)
             THEN [ok |-> TRUE, value |-> v2, pos |-> p + 1]
             ELSE read_varlen_loop(buf, p + 1, v2)

read_varlen(buf, p) == read_varlen_loop(buf, p, 0)

\* The while value loop of write_varlen: result grows least significant
\* group first, every group after the first with the continuation bit.
RECURSIVE write_varlen_loop(_, _)
write_varlen_loop(result, val) ==
    IF val = 0 THEN result
    ELSE write_varlen_loop(Append(result, (val % 128) + 128), val \div 128)

\* A writer that forgets to reverse the groups.
write_varlen_unreversed(val) ==
    IF val = 0 THEN <<0>>
    ELSE write_varlen_loop(<<val % 128>>, val \div 128)

\* A writer that always emits four groups, padding with 0x80.
write_varlen_padded(val) ==
    << ((val \div 2097152) % 128) + 128, ((val \div 16384) % 128) + 128,
       ((val \div 128) % 128) + 128, val % 128 >>

write_varlen(val) ==
    IF val = 0 THEN <<0>>
    ELSE Reversed(write_varlen_loop(<<val % 128>>, val \div 128))

----------------------------------------------------------------------------
(* The VLQ codec on its own: a value is encoded, the encoding decoded.     *)

MaxVlqSmall == 140

VlqBoundary == {127, 128, 16383, 16384, 2097151, 2097152, 268435455}

VlqValues == (0..MaxVlqSmall) \cup VlqBoundary

IdleVlq == value = 0 /\ enc = << >> /\ dec = VarlenError

IdleCodec ==
    /\ track = << >> /\ data = << >> /\ pos = 0 /\ end = 0 /\ time = 0
    /\ last_status = 0 /\ events = << >> /\ encoded = << >>

IdleTag ==
    /\ stem = "" /\ dry_run = FALSE /\ file = << >> /\ header = << >> /\ ppq = 0
    /\ num_bars = 0 /\ new_events = << >> /\ has_leadsheet = FALSE
    /\ file_meta_updated = FALSE /\ track_bytes = << >> /\ new_data = << >>
    /\ ret = <<"none">>

IdleNotes == tpos = 0 /\ active = << >> /\ notes = << >> /\ nret = <<"none">>

IdleAiff == chunks = << >>

IdleMain ==
    /\ midi_files = << >> /\ idx = 0 /\ ok_count = 0 /\ skip_count = 0
    /\ printed = << >>

IdleSequ == off = 0 /\ records = << >>

IdleMidiTrack == tick = 0 /\ running_status = 0 /\ pending_delta = 0

InitVlq ==
    /\ pc = "vlq_start"
    /\ value \in VlqValues
    /\ enc = << >>
    /\ dec = VarlenError
    /\ IdleCodec
    /\ IdleTag
    /\ IdleNotes
    /\ IdleAiff
    /\ IdleMain
    /\ IdleSequ
    /\ IdleMidiTrack

VlqEncode ==
    /\ pc = "vlq_start"
    /\ enc' = write_varlen(value)
    /\ pc' = "vlq_encoded"
    /\ UNCHANGED <<value, dec, codecVars, tagVars, notesVars, aiffVars, mainVars, sequVars, mtrkVars>>

VlqDecode ==
    /\ pc = "vlq_encoded"
    /\ dec' = read_varlen(enc, 0)
    /\ pc' = "vlq_decoded"
    /\ UNCHANGED <<value, enc, codecVars, tagVars, notesVars, aiffVars, mainVars, sequVars, mtrkVars>>

NextVlq == VlqEncode \/ VlqDecode

SpecVlq == InitVlq /\ [][NextVlq]_vars

\* C1: decoding the encoding of v gives back v, and the returned position
\* is the length of the encoding.
VlqRoundTrip ==
    pc = "vlq_decoded" =>
        dec = [ok |-> TRUE, value |-> value, pos |-> Len(enc)]

VlqRoundTripWitness ==
    /\ pc = "vlq_decoded"
    /\ value = 2097152
    /\ enc = <<129, 128, 128, 0>>
    /\ dec.value = 2097152 /\ dec.pos = 4

\* number of bits of v (Python's int.bit_length)
RECURSIVE BitLength(_)
BitLength(n) == IF n = 0 THEN 0 ELSE 1 + BitLength(n \div 2)

CeilDiv(a, b) == (a + b - 1) \div b

\* C2: the encoding is the shortest one: max(1, ceil(bitlength/7)) bytes,
\* no leading 0x80, continuation bit on every byte but the last, and the
\* encoding of 0 is the single byte 0.
VlqShortest ==
    pc \in {"vlq_encoded", "vlq_decoded"} =>
        /\ Len(enc) = Max(1, CeilDiv(BitLength(value), 7))
        /\ enc[1] # 128
        /\ \A i \in 1..Len(enc) : (enc[i] >= 128) <=> (i < Len(enc))
        /\ \A i \in 1..Len(enc) : enc[i] \in 0..255
        /\ (value = 0 => enc = <<0>>)

VlqShortestWitness ==
    /\ pc = "vlq_encoded"
    /\ value = 16384
    /\ enc = <<129, 128, 0>>

----------------------------------------------------------------------------
(* The event-stream codec.  An event is a tuple, as in the source:         *)
(*   <<"meta", abs_tick, meta_type, payload>>                              *)
(*   <<"sysex", abs_tick, status, payload>>                                *)
(*   <<"midi", abs_tick, status, data>>                                    *)

TwoDataCmds == {8, 9, 10, 11, 14}       \* cmd in (0x8, 0x9, 0xA, 0xB, 0xE)

OneDataCmds == {12, 13}                 \* cmd in (0xC, 0xD)

\* The locals of parse_events' loop.  branch names the arm of the
\* if/elif chain the iteration took; ok = FALSE is an IndexError.
ParseState(p, t, ls, evs, br) ==
    [ok |-> TRUE, pos |-> p, time |-> t, last_status |-> ls, events |-> evs,
     branch |-> br]

ParseError ==
    [ok |-> FALSE, pos |-> 0, time |-> 0, last_status |-> 0, events |-> << >>,
     branch |-> "raise"]

\* A parser whose running-status arm records the byte it looked at (b, as
\* the explicit-status arm does) in place of last_status.
parse_channel_nostatus(buf, p, t, status, evs, br) ==
    LET cmd == status \div 16 IN
    IF cmd \in TwoDataCmds THEN
        IF ~InRange(buf, p) \/ ~InRange(buf, p + 1) THEN ParseError
        ELSE ParseState(p + 2, t, status,
                 Append(evs, <<"midi", t,
                                IF br = "running" THEN At(buf, p) ELSE status,
                                <<At(buf, p), At(buf, p + 1)>> >>), br)
    ELSE IF cmd \in OneDataCmds THEN
        IF ~InRange(buf, p) THEN ParseError
        ELSE ParseState(p + 1, t, status,
                 Append(evs, <<"midi", t, status, <<At(buf, p)>> >>), br)
    ELSE ParseState(p, t, status, evs, br)

\* The channel-event arms shared by "new status byte" and "running status":
\* p is the position of the first data byte, status the status in force.
parse_channel(buf, p, t, status, evs, br) ==
    LET cmd == status \div 16 IN
    IF cmd \in TwoDataCmds THEN
        IF ~InRange(buf, p) \/ ~InRange(buf, p + 1) THEN ParseError
        ELSE ParseState(p + 2, t, status,
                 Append(evs, <<"midi", t, status, <<At(buf, p), At(buf, p + 1)>> >>), br)
    ELSE IF cmd \in OneDataCmds THEN
        IF ~InRange(buf, p) THEN ParseError
        ELSE ParseState(p + 1, t, status,
                 Append(evs, <<"midi", t, status, <<At(buf, p)>> >>), br)
    ELSE ParseState(p, t, status, evs, br)

\* The meta arm: 0xFF, type, VLQ length, payload.  p is the position of 0xFF.
parse_meta(buf, p, t, evs) ==
    IF ~InRange(buf, p + 1) THEN ParseError
    ELSE LET mtype == At(buf, p + 1)
             ml    == read_varlen(buf, p + 2)
         IN  IF ~ml.ok THEN ParseError
             ELSE ParseState(ml.pos + ml.value, t, 0,
                      Append(evs, <<"meta", t, mtype,
                                    Slice(buf, ml.pos, ml.pos + ml.value)>>), "meta")

\* The sysex arm: 0xF0 or 0xF7, VLQ length, payload.
parse_sysex(buf, p, t, b, evs) ==
    LET ml == read_varlen(buf, p + 1) IN
    IF ~ml.ok THEN ParseError
    ELSE ParseState(ml.pos + ml.value, t, 0,
             Append(evs, <<"sysex", t, b, Slice(buf, ml.pos, ml.pos + ml.value)>>),
             "sysex")

\* An iteration whose running-status arm, when the status in force takes no
\* data bytes, gives back the record it read: nothing is consumed.
parse_step_stuck(buf, st) ==
    LET dl == read_varlen(buf, st.pos) IN
    IF ~dl.ok THEN ParseError
    ELSE IF ~InRange(buf, dl.pos) THEN ParseError
    ELSE LET t == st.time + dl.value
             p == dl.pos
             b == At(buf, p)
         IN  IF b = 255 THEN parse_meta(buf, p, t, st.events)
             ELSE IF b = 240 \/ b = 247 THEN parse_sysex(buf, p, t, b, st.events)
             ELSE IF b >= 128
                  THEN parse_channel(buf, p + 1, t, b, st.events, "status")
                  ELSE IF (st.last_status \div 16) \in TwoDataCmds \cup OneDataCmds
                       THEN parse_channel(buf, p, t, st.last_status, st.events,
                                          "running")
                       ELSE ParseState(st.pos, st.time, st.last_status, st.events,
                                       "running")

\* One iteration of the while loop of parse_events.
parse_step(buf, st) ==
    LET dl == read_varlen(buf, st.pos) IN
    IF ~dl.ok THEN ParseError
    ELSE IF ~InRange(buf, dl.pos) THEN ParseError
    ELSE LET t == st.time + dl.value
             p == dl.pos
             b == At(buf, p)
         IN  IF b = 255 THEN parse_meta(buf, p, t, st.events)
             ELSE IF b = 240 \/ b = 247 THEN parse_sysex(buf, p, t, b, st.events)
             ELSE IF b >= 128
                  THEN parse_channel(buf, p + 1, t, b, st.events, "status")
                  ELSE parse_channel(buf, p, t, st.last_status, st.events, "running")

RECURSIVE parse_loop(_, _, _)
parse_loop(buf, e, st) ==
    IF ~(st.pos < e) THEN st
    ELSE LET nx == parse_step(buf, st) IN
         IF ~nx.ok THEN ParseError ELSE parse_loop(buf, e, nx)

\* parse_events(data, pos, end): ok and the event list, or an IndexError
parse_events(buf, p, e) == parse_loop(buf, e, ParseState(p, 0, 0, << >>, "start"))

\* sorted(s, key=lambda e: e[k-1]): a stable sort on field k
RECURSIVE SortedByField(_, _)
SortedByField(s, k) ==
    IF s = << >> THEN << >>
    ELSE LET init == SortedByField(SubSeq(s, 1, Len(s) - 1), k)
             e    == s[Len(s)]
             n    == Cardinality({i \in 1..Len(init) : init[i][k] <= e[k]})
         IN  SubSeq(init, 1, n) \o <<e>> \o SubSeq(init, n + 1, Len(init))

\* The bytes encode_events emits for one event after its delta time.
event_bytes(ev) ==
    IF ev[1] = "meta" THEN <<255, ev[3]>> \o write_varlen(Len(ev[4])) \o ev[4]
    ELSE IF ev[1] = "sysex" THEN <<ev[3]>> \o write_varlen(Len(ev[4])) \o ev[4]
    ELSE IF ev[1] = "midi" THEN <<ev[3]>> \o ev[4]
    ELSE << >>

\* The for loop of encode_events over the sorted events.
RECURSIVE encode_loop(_, _, _)
encode_loop(evs, prev_tick, result) ==
    IF evs = << >> THEN result
    ELSE LET ev == Head(evs) IN
         encode_loop(Tail(evs), ev[2],
                     result \o write_varlen(ev[2] - prev_tick) \o event_bytes(ev))

encode_events(evs) == encode_loop(SortedByField(evs, 2), 0, << >>)

----------------------------------------------------------------------------
(* Text and JSON as tag_file uses them.  A str is the sequence of its      *)
(* character codes.  The model covers ASCII text, for which decode and     *)
(* encode('utf-8') keep the codes and fail on a byte above 0x7F, and JSON  *)
(* objects whose values are strings without escapes or non-negative        *)
(* integers; any other JSON text ends the try block of tag_file with an    *)
(* exception (json.loads raising, or .get raising on a non-object).        *)
(* A dict is the sequence of its <<key, value>> pairs in insertion order;  *)
(* a value is <<"s", str>> or <<"n", int>>.                                *)

\* b'MThd'
b_MThd ==
    <<77, 84, 104, 100>>

\* b'MTrk'
b_MTrk ==
    <<77, 84, 114, 107>>

\* 'MCURATOR:v1 ' (12 characters)
s_PREFIX ==
    <<77, 67, 85, 82, 65, 84, 79, 82, 58, 118, 49, 32>>

\* 'type'
s_type ==
    <<116, 121, 112, 101>>

\* 'file'
s_file ==
    <<102, 105, 108, 101>>

\* 'leadsheet'
s_leadsheet ==
    <<108, 101, 97, 100, 115, 104, 101, 101, 116>>

\* 'vpSource'
s_vpSource ==
    <<118, 112, 83, 111, 117, 114, 99, 101>>

\* 'vpPattern'
s_vpPattern ==
    <<118, 112, 80, 97, 116, 116, 101, 114, 110>>

\* 'vpIntensity'
s_vpIntensity ==
    <<118, 112, 73, 110, 116, 101, 110, 115, 105, 116, 121>>

\* 'text'
s_text ==
    <<116, 101, 120, 116>>

\* 'C6add9'
s_C6add9 ==
    <<67, 54, 97, 100, 100, 57>>

\* 'bars'
s_bars ==
    <<98, 97, 114, 115>>

\* 'VP-GRIT'
s_VP_GRIT ==
    <<86, 80, 45, 71, 82, 73, 84>>

\* 'VP-VIBE-' + level, level = 'Basic'
s_VP_VIBE_Basic ==
    <<86, 80, 45, 86, 73, 66, 69, 45, 66, 97, 115, 105, 99>>

\* the pattern name 'Rock'
s_Rock ==
    <<82, 111, 99, 107>>

\* the pattern name 'Soul'
s_Soul ==
    <<83, 111, 117, 108>>

\* the intensity '5'
s_5 ==
    <<53>>

\* the intensity '10a'
s_10a ==
    <<49, 48, 97>>

\* mdata.decode('utf-8')
decode_utf8(mdata) ==
    IF \A i \in 1..Len(mdata) : mdata[i] < 128
    THEN [ok |-> TRUE, text |-> mdata]
    ELSE [ok |-> FALSE, text |-> << >>]

\* obj[key] = val: an existing key keeps its place, a new key goes last
DictSet(obj, key, val) ==
    IF \E i \in 1..Len(obj) : obj[i][1] = key
    THEN [i \in 1..Len(obj) |-> IF obj[i][1] = key THEN <<key, val>> ELSE obj[i]]
    ELSE Append(obj, <<key, val>>)

DictKeys(obj) == { obj[i][1] : i \in 1..Len(obj) }

\* obj.get(key): the value, or <<"none">>
DictGet(obj, key) ==
    IF key \in DictKeys(obj)
    THEN obj[CHOOSE i \in 1..Len(obj) : obj[i][1] = key][2]
    ELSE <<"none">>

JsonError == [ok |-> FALSE, val |-> <<"none">>, pos |-> 0]

\* the first position at or after i that holds no space, Len(t) at most
skip_ws(t, i) ==
    IF i >= Len(t) THEN i
    ELSE CHOOSE j \in i..Len(t) :
             /\ j = Len(t) \/ At(t, j) # 32
             /\ \A k \in i..(j - 1) : At(t, k) = 32

\* the position of the next '"' at or after i, Len(t) when there is none
find_quote(t, i) ==
    IF i >= Len(t) THEN i
    ELSE CHOOSE j \in i..Len(t) :
             /\ j = Len(t) \/ At(t, j) = 34
             /\ \A k \in i..(j - 1) : At(t, k) # 34

\* the string that opens at i and closes at q
json_string_to(t, i, q) ==
    IF ~InRange(t, q) \/ (\E j \in (i + 1)..(q - 1) : At(t, j) = 92)
    THEN JsonError
    ELSE [ok |-> TRUE, val |-> Slice(t, i + 1, q), pos |-> q + 1]

json_string(t, i) ==
    IF ~(InRange(t, i) /\ At(t, i) = 34) THEN JsonError
    ELSE json_string_to(t, i, find_quote(t, i + 1))

RECURSIVE scan_digits(_, _, _)
scan_digits(t, i, acc) ==
    IF InRange(t, i) /\ At(t, i) \in 48..57
    THEN scan_digits(t, i + 1, acc * 10 + (At(t, i) - 48))
    ELSE [ok |-> TRUE, val |-> <<"n", acc>>, pos |-> i]

json_tagged(s) ==
    IF s.ok THEN [ok |-> TRUE, val |-> <<"s", s.val>>, pos |-> s.pos]
    ELSE JsonError

\* a string, or an integer without sign and without leading zero
json_value(t, i) ==
    IF ~InRange(t, i) THEN JsonError
    ELSE IF At(t, i) = 34 THEN json_tagged(json_string(t, i))
    ELSE IF At(t, i) \in 49..57
            \/ (At(t, i) = 48 /\ ~(InRange(t, i + 1) /\ At(t, i + 1) \in 48..57))
         THEN scan_digits(t, i, 0)
    ELSE JsonError

\* The members of an object from the first key at i to the closing brace:
\* key, colon, value, then a comma and the next member or the brace.
RECURSIVE json_members(_, _, _)

json_member_next(t, i3, obj) ==
    IF ~InRange(t, i3) THEN JsonError
    ELSE IF At(t, i3) = 44 THEN json_members(t, skip_ws(t, i3 + 1), obj)
    ELSE IF At(t, i3) = 125 THEN [ok |-> TRUE, val |-> obj, pos |-> i3 + 1]
    ELSE JsonError

json_member_value(t, k, v, obj) ==
    IF ~v.ok THEN JsonError
    ELSE json_member_next(t, skip_ws(t, v.pos), DictSet(obj, k.val, v.val))

json_member_colon(t, k, i1, obj) ==
    IF ~(InRange(t, i1) /\ At(t, i1) = 58) THEN JsonError
    ELSE json_member_value(t, k, json_value(t, skip_ws(t, i1 + 1)), obj)

json_member_key(t, k, obj) ==
    IF ~k.ok THEN JsonError
    ELSE json_member_colon(t, k, skip_ws(t, k.pos), obj)

json_members(t, i, obj) == json_member_key(t, json_string(t, i), obj)

\* nothing but spaces may follow the object
json_whole(t, r) ==
    IF ~r.ok \/ skip_ws(t, r.pos) # Len(t) THEN JsonError ELSE r

json_object(t, i1) ==
    IF InRange(t, i1) /\ At(t, i1) = 125
    THEN json_whole(t, [ok |-> TRUE, val |-> << >>, pos |-> i1 + 1])
    ELSE json_whole(t, json_members(t, i1, << >>))

json_open(t, i0) ==
    IF ~(InRange(t, i0) /\ At(t, i0) = 123) THEN JsonError
    ELSE json_object(t, skip_ws(t, i0 + 1))

\* json.loads(t) for an object; ok = FALSE where tag_file's try block fails
json_loads(t) == json_open(t, skip_ws(t, 0))

\* str(n) for n >= 0
RECURSIVE int_digits(_)
int_digits(n) ==
    IF n < 10 THEN <<48 + n>> ELSE Append(int_digits(n \div 10), 48 + (n % 10))

json_dumps_value(v) ==
    IF v[1] = "s" THEN <<34>> \o v[2] \o <<34>> ELSE int_digits(v[2])

RECURSIVE json_dumps_members(_)
json_dumps_members(obj) ==
    IF obj = << >> THEN << >>
    ELSE <<34>> \o obj[1][1] \o <<34, 58>> \o json_dumps_value(obj[1][2])
         \o (IF Len(obj) > 1 THEN <<44>> ELSE << >>)
         \o json_dumps_members(Tail(obj))

\* json.dumps(obj, separators=(',', ':'))
json_dumps(obj) == <<123>> \o json_dumps_members(obj) \o <<125>>

----------------------------------------------------------------------------
(* File names.  parse_filename matches the stem against GRIT_RE and        *)
(* VIBE_RE; the model holds three stems and what the expressions give      *)
(* for each.                                                               *)

Stems ==
    { "VP-GRIT - 120 bpm - Rock - 5 - 01",
      "VP-VIBE - Basic: 90 bpm - Soul - 10a - 02",
      "readme" }

NoMatch == [vp_source |-> <<"none">>, bpm |-> 0, pattern_name |-> <<"none">>,
            intensity |-> <<"none">>]

parse_filename(st) ==
    IF st = "VP-GRIT - 120 bpm - Rock - 5 - 01"
    THEN [vp_source |-> s_VP_GRIT, bpm |-> 120, pattern_name |-> s_Rock,
          intensity |-> s_5]
    ELSE IF st = "VP-VIBE - Basic: 90 bpm - Soul - 10a - 02"
    THEN [vp_source |-> s_VP_VIBE_Basic, bpm |-> 90, pattern_name |-> s_Soul,
          intensity |-> s_10a]
    ELSE NoMatch

----------------------------------------------------------------------------
(* tag_file.                                                               *)

\* struct.unpack('>I', b) and ('>H', b) on a slice of the right length
U32(b) == ((b[1] * 256 + b[2]) * 256 + b[3]) * 256 + b[4]

U16(b) == b[1] * 256 + b[2]

\* struct.pack('>I', n)
PackU32(n) ==
    << (n \div 16777216) % 256, (n \div 65536) % 256, (n \div 256) % 256, n % 256 >>

IsNoteOff(ev) ==
    /\ ev[1] = "midi"
    /\ \/ ev[3] \div 16 = 8
       \/ ev[3] \div 16 = 9 /\ Len(ev[4]) >= 2 /\ ev[4][2] = 0

\* the for loop of compute_num_bars
RECURSIVE last_off_loop(_, _)
last_off_loop(evs, last_off) ==
    IF evs = << >> THEN last_off
    ELSE last_off_loop(Tail(evs),
             IF IsNoteOff(Head(evs)) THEN Max(last_off, Head(evs)[2]) ELSE last_off)

\* math.ceil(a / b) for a >= 0, b > 0
Ceil(a, b) == IF a % b = 0 THEN a \div b ELSE (a \div b) + 1

\* A bar count that rounds down.
compute_num_bars_floor(evs, q) ==
    IF q * 4 = 0 THEN [ok |-> FALSE, bars |-> 0]
    ELSE [ok |-> TRUE, bars |-> Max(1, last_off_loop(evs, 0) \div (q * 4))]

\* compute_num_bars(events, ppq); ok = FALSE is the ZeroDivisionError
compute_num_bars(evs, q) ==
    IF q * 4 = 0 THEN [ok |-> FALSE, bars |-> 0]
    ELSE [ok |-> TRUE, bars |-> Max(1, Ceil(last_off_loop(evs, 0), q * 4))]

\* What the try block of tag_file does with a text event whose payload is
\* mdata: kind is "file" (the event is replaced, its payload becomes new),
\* "leadsheet" (has_leadsheet is set) or "other" (also when it raised).
Unpatched(mdata, k) == [kind |-> k, new |-> mdata]

\* obj['vpSource'], obj['vpPattern'], obj['vpIntensity'] = ...
set_vp_fields(obj, fn) ==
    DictSet(DictSet(DictSet(obj, s_vpSource, <<"s", fn.vp_source>>),
                    s_vpPattern, <<"s", fn.pattern_name>>),
            s_vpIntensity, <<"s", fn.intensity>>)

\* A patch that builds the object anew from the type and the three fields.
patch_object_fresh(mdata, obj, fn) ==
    IF DictGet(obj, s_type) = <<"s", s_file>>
    THEN [kind |-> "file",
          new |-> s_PREFIX \o json_dumps(
                      set_vp_fields(<< <<s_type, <<"s", s_file>> >> >>, fn))]
    ELSE IF DictGet(obj, s_type) = <<"s", s_leadsheet>>
    THEN Unpatched(mdata, "leadsheet")
    ELSE Unpatched(mdata, "other")

patch_object(mdata, obj, fn) ==
    IF DictGet(obj, s_type) = <<"s", s_file>>
    THEN [kind |-> "file", new |-> s_PREFIX \o json_dumps(set_vp_fields(obj, fn))]
    ELSE IF DictGet(obj, s_type) = <<"s", s_leadsheet>>
    THEN Unpatched(mdata, "leadsheet")
    ELSE Unpatched(mdata, "other")

patch_loaded(mdata, js, fn) ==
    IF ~js.ok THEN Unpatched(mdata, "other") ELSE patch_object(mdata, js.val, fn)

patch_decoded(mdata, d, fn) ==
    IF ~d.ok \/ Slice(d.text, 0, 12) # s_PREFIX THEN Unpatched(mdata, "other")
    ELSE patch_loaded(mdata, json_loads(Slice(d.text, 12, Len(d.text))), fn)

patch_text(mdata, fn) == patch_decoded(mdata, decode_utf8(mdata), fn)

\* The locals the for loop of tag_file works on.
RebuildState(new_evs, has_ls, updated) ==
    [new_events |-> new_evs, has_leadsheet |-> has_ls, file_meta_updated |-> updated]

\* a text event: replaced (and continue), or kept
rebuild_text(ev, p, acc) ==
    IF p.kind = "file"
    THEN RebuildState(Append(acc.new_events, <<"meta", ev[2], 1, p.new>>),
                      acc.has_leadsheet, TRUE)
    ELSE RebuildState(Append(acc.new_events, ev),
                      acc.has_leadsheet \/ p.kind = "leadsheet",
                      acc.file_meta_updated)

\* A loop body that forgets the continue: the old event is appended too.
rebuild_text_keep(ev, p, acc) ==
    IF p.kind = "file"
    THEN RebuildState(acc.new_events \o << <<"meta", ev[2], 1, p.new>>, ev >>,
                      acc.has_leadsheet, TRUE)
    ELSE RebuildState(Append(acc.new_events, ev),
                      acc.has_leadsheet \/ p.kind = "leadsheet",
                      acc.file_meta_updated)

\* one pass of the for loop
rebuild_one(ev, fn, acc) ==
    IF ev[1] = "meta" /\ ev[3] = 1
    THEN rebuild_text(ev, patch_text(ev[4], fn), acc)
    ELSE RebuildState(Append(acc.new_events, ev), acc.has_leadsheet,
                      acc.file_meta_updated)

RECURSIVE rebuild_loop(_, _, _)
rebuild_loop(evs, fn, acc) ==
    IF evs = << >> THEN acc
    ELSE rebuild_loop(Tail(evs), fn, rebuild_one(Head(evs), fn, acc))

\* Lines 204-235 of tag_file: the loop, then the leadsheet event if none
rebuild(evs, fn) == rebuild_loop(evs, fn, RebuildState(<< >>, FALSE, FALSE))

\* the leadsheet event tag_file appends
leadsheet_event(bars) ==
    <<"meta", 0, 1,
      s_PREFIX \o json_dumps(<< <<s_type, <<"s", s_leadsheet>> >>,
                                <<s_text, <<"s", s_C6add9>> >>,
                                <<s_bars, <<"n", bars>> >> >>)>>

----------------------------------------------------------------------------
(* The codec on its own: a track is parsed record by record, the events    *)
(* are encoded, and the encoder's output is parsed and encoded again.      *)

MaxRecords == 3

\* pieces of track payload, each a well-formed or a damaged record
TrackPool ==
    { <<0, 144, 60, 100>>,        \* delta 0, note-on ch0, pitch 60, velocity 100
      <<10, 60, 0>>,              \* delta 10, running status: data bytes 60, 0
      <<129, 0, 128, 60, 64>>,    \* delta 128 (two-byte VLQ), note-off pitch 60
      <<0, 192, 5>>,              \* program change 5
      <<0, 255, 1, 2, 72, 105>>,  \* text meta "Hi"
      <<0, 255, 47, 0>>,          \* end of track
      <<0, 240, 1, 247>>,         \* sysex with a one-byte payload
      <<0, 241>>,                 \* status 0xF1
      <<0, 255, 1, 5, 72>>,       \* text meta declaring 5 bytes, 1 present
      <<0, 144>>,                 \* a status byte whose data bytes are what follows
      <<0>> }                     \* a lone delta

RECURSIVE Concat(_)
Concat(ss) == IF ss = << >> THEN << >> ELSE Head(ss) \o Concat(Tail(ss))

Tracks(n) == UNION { { Concat(c) : c \in [1..k -> TrackPool] } : k \in 0..n }

InitCodec ==
    /\ pc = "parse"
    /\ track \in Tracks(MaxRecords)
    /\ data = track
    /\ pos = 0
    /\ end = Len(track)
    /\ time = 0
    /\ last_status = 0
    /\ events = << >>
    /\ encoded = << >>
    /\ IdleVlq
    /\ IdleTag
    /\ IdleNotes
    /\ IdleAiff
    /\ IdleMain
    /\ IdleSequ
    /\ IdleMidiTrack

Step == parse_step(data, ParseState(pos, time, last_status, events, "start"))

\* an iteration that does not raise: the locals after it
ParseTake ==
    /\ pc = "parse"
    /\ pos < end
    /\ Step.ok
    /\ pos' = Step.pos
    /\ time' = Step.time
    /\ last_status' = Step.last_status
    /\ events' = Step.events
    /\ UNCHANGED <<pc, track, data, end, encoded, vlqVars, tagVars, notesVars, aiffVars, mainVars, sequVars, mtrkVars>>

ParseMeta ==
    /\ Step.branch = "meta"
    /\ ParseTake

ParseSysex ==
    /\ Step.branch = "sysex"
    /\ ParseTake

ParseStatus ==
    /\ Step.branch = "status"
    /\ ParseTake

ParseRunning ==
    /\ Step.branch = "running"
    /\ ParseTake

\* data[pos] past the end of the buffer: IndexError leaves parse_events
ParseRaise ==
    /\ pc = "parse"
    /\ pos < end
    /\ ~Step.ok
    /\ pc' = "raised"
    /\ UNCHANGED <<codecVars, vlqVars, tagVars, notesVars, aiffVars, mainVars, sequVars, mtrkVars>>

ParseReturn ==
    /\ pc = "parse"
    /\ ~(pos < end)
    /\ pc' = "parsed"
    /\ UNCHANGED <<codecVars, vlqVars, tagVars, notesVars, aiffVars, mainVars, sequVars, mtrkVars>>

Encode ==
    /\ pc = "parsed"
    /\ encoded' = Append(encoded, encode_events(events))
    /\ pc' = "encoded"
    /\ UNCHANGED <<track, data, pos, end, time, last_status, events, vlqVars,
                   tagVars, notesVars, aiffVars, mainVars, sequVars, mtrkVars>>

\* parse_events(B, 0, len(B)) on the encoder's own output
Reparse ==
    /\ pc = "encoded"
    /\ Len(encoded) = 1
    /\ data' = encoded[1]
    /\ pos' = 0
    /\ end' = Len(encoded[1])
    /\ time' = 0
    /\ last_status' = 0
    /\ events' = << >>
    /\ pc' = "parse"
    /\ UNCHANGED <<track, encoded, vlqVars, tagVars, notesVars, aiffVars, mainVars, sequVars, mtrkVars>>

NextCodec ==
    \/ ParseMeta \/ ParseSysex \/ ParseStatus \/ ParseRunning
    \/ ParseRaise \/ ParseReturn \/ Encode \/ Reparse

SpecCodec == InitCodec /\ [][NextCodec]_vars

\* C3: parsing the encoder's output and encoding again gives the same
\* bytes: the second parse does not raise and the second encoding equals
\* the first.
RoundTripIdempotent ==
    /\ (pc = "raised" => encoded = << >>)
    /\ (Len(encoded) = 2 => encoded[2] = encoded[1])

\* a track that used running status: the encoder's output differs from the
\* input, and the second encoding equals the first
RoundTripIdempotentWitness ==
    /\ Len(encoded) = 2
    /\ track = <<0, 144, 60, 100, 10, 60, 0>>
    /\ encoded[1] = <<0, 144, 60, 100, 10, 144, 60, 0>>
    /\ encoded[2] = encoded[1]

----------------------------------------------------------------------------
(* tag_file on one file, in the order of its code: open and check the      *)
(* header, parse the track, rebuild the event list, encode, write.         *)

MaxTagRecords == 3

\* a file-level event, not yet tagged, written with spaces: 'MCURATOR:v1 {"type": "file", "n": 1}'
TextFileSpaced ==
    <<77, 67, 85, 82, 65, 84, 79, 82, 58, 118, 49, 32, 123, 34, 116, 121,
    112, 101, 34, 58, 32, 34, 102, 105, 108, 101, 34, 44, 32, 34, 110, 34,
    58, 32, 49, 125>>

\* a file-level event that already carries a vpSource: 'MCURATOR:v1 {"vpSource":"X","type":"file"}'
TextFileTagged ==
    <<77, 67, 85, 82, 65, 84, 79, 82, 58, 118, 49, 32, 123, 34, 118, 112,
    83, 111, 117, 114, 99, 101, 34, 58, 34, 88, 34, 44, 34, 116, 121, 112,
    101, 34, 58, 34, 102, 105, 108, 101, 34, 125>>

\* a leadsheet event: 'MCURATOR:v1 {"type":"leadsheet","text":"C6add9","bars":9}'
TextLeadsheet ==
    <<77, 67, 85, 82, 65, 84, 79, 82, 58, 118, 49, 32, 123, 34, 116, 121,
    112, 101, 34, 58, 34, 108, 101, 97, 100, 115, 104, 101, 101, 116, 34,
    44, 34, 116, 101, 120, 116, 34, 58, 34, 67, 54, 97, 100, 100, 57, 34,
    44, 34, 98, 97, 114, 115, 34, 58, 57, 125>>

\* the prefix followed by JSON that is no object: 'MCURATOR:v1 [1]'
TextNotObject ==
    <<77, 67, 85, 82, 65, 84, 79, 82, 58, 118, 49, 32, 91, 49, 93>>

\* a text event without the prefix: 'Hi'
TextPlain ==
    <<72, 105>>

\* a text meta event (kind 0x01) as it stands in a track
TextRecord(delta, text) == <<delta, 255, 1>> \o write_varlen(Len(text)) \o text

\* records of a track: delta time, then the event
TagPool ==
    { <<0, 144, 60, 100>>,            \* delta 0, note-on pitch 60 velocity 100
      <<96, 128, 60, 0>>,             \* delta 96, note-off pitch 60
      <<1, 60, 0>>,                   \* delta 1, running status: pitch 60, velocity 0
      TextRecord(0, TextFileSpaced),
      TextRecord(0, TextFileTagged),
      TextRecord(0, TextLeadsheet),
      TextRecord(0, TextNotObject),
      TextRecord(0, TextPlain),
      <<0, 255, 47, 0>> }             \* end of track

TagTracks(n) == UNION { { Concat(c) : c \in [1..k -> TagPool] } : k \in 0..n }

\* ticks per quarter note of the headers
PpqValues == {1, 24}

MidiHeader(q) == b_MThd \o PackU32(6) \o <<0, 0, 0, 1, q \div 256, q % 256>>

MidiFile(q, trk) == MidiHeader(q) \o b_MTrk \o PackU32(Len(trk)) \o trk

\* files tag_file does not get through
DamagedFiles ==
    { << >>,                                              \* empty
      b_MThd \o <<0, 0>>,                                 \* cut inside the header
      MidiHeader(24),                                     \* no track chunk
      MidiHeader(24) \o b_MTrk \o PackU32(4) \o <<0, 144, 60>>,  \* track cut short
      MidiFile(0, <<96, 128, 60, 0>>) }                   \* zero ticks per quarter note

\* (stem, dry_run, file): every track under the GRIT name, and the small
\* and the damaged files under every name, with and without dry_run
TagInputs ==
    { <<"VP-GRIT - 120 bpm - Rock - 5 - 01", FALSE, MidiFile(q, t)>> :
          q \in PpqValues, t \in TagTracks(MaxTagRecords) }
    \cup
    { <<s, d, f>> : s \in Stems, d \in BOOLEAN,
          f \in DamagedFiles \cup { MidiFile(24, t) : t \in TagTracks(1) } }

\* Lines 183-201 of tag_file: the name, the header and the track chunk.
\* outcome "skip" is return False, "raise" a struct.error.
tag_open(st, f) ==
    LET fn   == parse_filename(st)
        hlen == U32(Slice(f, 4, 8))
        p    == 8 + hlen
        skip(m) == [outcome |-> "skip", msg |-> m, header |-> << >>, ppq |-> 0,
                    pos |-> 0, tlen |-> 0]
        raise   == [outcome |-> "raise", msg |-> "struct.error", header |-> << >>,
                    ppq |-> 0, pos |-> 0, tlen |-> 0]
    IN  IF fn = NoMatch THEN skip("Could not parse filename")
        ELSE IF Slice(f, 0, 4) # b_MThd THEN skip("Not a MIDI file")
        ELSE IF Len(Slice(f, 4, 8)) # 4 \/ Len(Slice(f, 8, 14)) # 6 THEN raise
        ELSE IF Slice(f, p, p + 4) # b_MTrk THEN skip("Expected MTrk")
        ELSE IF Len(Slice(f, p + 4, p + 8)) # 4 THEN raise
        ELSE [outcome |-> "ok", msg |-> "", header |-> Slice(f, 0, 8 + hlen),
              ppq |-> U16(Slice(f, 12, 14)), pos |-> p,
              tlen |-> U32(Slice(f, p + 4, p + 8))]

InitTag ==
    /\ pc = "tag_start"
    /\ \E inp \in TagInputs :
          /\ stem = inp[1]
          /\ dry_run = inp[2]
          /\ file = inp[3]
    /\ header = << >> /\ ppq = 0 /\ num_bars = 0 /\ new_events = << >>
    /\ has_leadsheet = FALSE /\ file_meta_updated = FALSE
    /\ track_bytes = << >> /\ new_data = << >> /\ ret = <<"none">>
    /\ IdleVlq
    /\ IdleCodec
    /\ IdleNotes
    /\ IdleAiff
    /\ IdleMain
    /\ IdleSequ
    /\ IdleMidiTrack

TagOpenTo(o) ==
    /\ o.outcome = "ok"
    /\ data' = file
    /\ header' = o.header
    /\ ppq' = o.ppq
    /\ pos' = o.pos
    /\ end' = o.pos + 8 + o.tlen
    /\ pc' = "tag_parse"
    /\ UNCHANGED <<aiffVars, mainVars, sequVars, mtrkVars, notesVars, vlqVars, track, time, last_status, events, encoded, stem,
                   dry_run, file, num_bars, new_events, has_leadsheet,
                   file_meta_updated, track_bytes, new_data, ret>>

TagOpen ==
    /\ pc = "tag_start"
    /\ TagOpenTo(tag_open(stem, file))

\* return False, message
TagSkipTo(o) ==
    /\ o.outcome = "skip"
    /\ ret' = [ok |-> FALSE, msg |-> o.msg]
    /\ pc' = "tag_done"
    /\ UNCHANGED <<aiffVars, mainVars, sequVars, mtrkVars, notesVars, vlqVars, codecVars, stem, dry_run, file, header, ppq, num_bars,
                   new_events, has_leadsheet, file_meta_updated, track_bytes,
                   new_data>>

TagSkip ==
    /\ pc = "tag_start"
    /\ TagSkipTo(tag_open(stem, file))

\* struct.unpack on a short slice
TagOpenRaise ==
    /\ pc = "tag_start"
    /\ tag_open(stem, file).outcome = "raise"
    /\ pc' = "tag_raised"
    /\ UNCHANGED <<aiffVars, mainVars, sequVars, mtrkVars, notesVars, vlqVars, codecVars, tagVars>>

\* events = parse_events(data, pos + 8, pos + 8 + tlen)
TagParseTo(r) ==
    /\ r.ok
    /\ events' = r.events
    /\ pc' = "tag_rebuild"
    /\ UNCHANGED <<aiffVars, mainVars, sequVars, mtrkVars, notesVars, vlqVars, track, data, pos, end, time, last_status, encoded,
                   tagVars>>

TagParse ==
    /\ pc = "tag_parse"
    /\ TagParseTo(parse_events(data, pos + 8, end))

TagParseRaise ==
    /\ pc = "tag_parse"
    /\ ~parse_events(data, pos + 8, end).ok
    /\ pc' = "tag_raised"
    /\ UNCHANGED <<aiffVars, mainVars, sequVars, mtrkVars, notesVars, vlqVars, codecVars, tagVars>>

\* A rebuild that inserts the leadsheet event only next to a file-level event.
TagRebuildToFileOnly(nb, rb) ==
    /\ nb.ok
    /\ num_bars' = nb.bars
    /\ has_leadsheet' = rb.has_leadsheet
    /\ file_meta_updated' = rb.file_meta_updated
    /\ new_events' = IF rb.has_leadsheet \/ ~rb.file_meta_updated THEN rb.new_events
                     ELSE Append(rb.new_events, leadsheet_event(nb.bars))
    /\ pc' = "tag_encode"
    /\ UNCHANGED <<aiffVars, mainVars, sequVars, mtrkVars, notesVars, vlqVars, codecVars, stem, dry_run, file,
                   header, ppq, track_bytes, new_data, ret>>

\* Lines 204-235: the bar count, the rebuilt list, the leadsheet event.
TagRebuildTo(nb, rb) ==
    /\ nb.ok
    /\ num_bars' = nb.bars
    /\ has_leadsheet' = rb.has_leadsheet
    /\ file_meta_updated' = rb.file_meta_updated
    /\ new_events' = IF rb.has_leadsheet THEN rb.new_events
                     ELSE Append(rb.new_events, leadsheet_event(nb.bars))
    /\ pc' = "tag_encode"
    /\ UNCHANGED <<aiffVars, mainVars, sequVars, mtrkVars, notesVars, vlqVars, codecVars, stem, dry_run, file, header, ppq,
                   track_bytes, new_data, ret>>

TagRebuild ==
    /\ pc = "tag_rebuild"
    /\ TagRebuildTo(compute_num_bars(events, ppq),
                    rebuild(events, parse_filename(stem)))

\* ppq = 0: last_off / ticks_per_bar divides by zero
TagRebuildRaise ==
    /\ pc = "tag_rebuild"
    /\ ~compute_num_bars(events, ppq).ok
    /\ pc' = "tag_raised"
    /\ UNCHANGED <<aiffVars, mainVars, sequVars, mtrkVars, notesVars, vlqVars, codecVars, tagVars>>

\* Lines 237-238
TagEncodeTo(tb) ==
    /\ track_bytes' = tb
    /\ new_data' = header \o b_MTrk \o PackU32(Len(tb)) \o tb
    /\ pc' = "tag_write"
    /\ UNCHANGED <<aiffVars, mainVars, sequVars, mtrkVars, notesVars, vlqVars, codecVars, stem, dry_run, file, header, ppq, num_bars,
                   new_events, has_leadsheet, file_meta_updated, ret>>

TagEncode ==
    /\ pc = "tag_encode"
    /\ TagEncodeTo(encode_events(new_events))

\* A last step that writes under dry_run too.
TagWriteAlways ==
    /\ pc = "tag_write"
    /\ file' = new_data
    /\ ret' = [ok |-> TRUE,
               msg |-> [bars |-> num_bars, warning |-> ~file_meta_updated,
                        leadsheet |-> IF has_leadsheet THEN "existing" ELSE "added"]]
    /\ pc' = "tag_done"
    /\ UNCHANGED <<aiffVars, mainVars, sequVars, mtrkVars, notesVars, vlqVars, codecVars, stem, dry_run, header,
                   ppq, num_bars, new_events, has_leadsheet, file_meta_updated,
                   track_bytes, new_data>>

\* Lines 240-256: the message, the write unless dry_run, return True
TagWrite ==
    /\ pc = "tag_write"
    /\ file' = IF dry_run THEN file ELSE new_data
    /\ ret' = [ok |-> TRUE,
               msg |-> [bars |-> num_bars, warning |-> ~file_meta_updated,
                        leadsheet |-> IF has_leadsheet THEN "existing" ELSE "added"]]
    /\ pc' = "tag_done"
    /\ UNCHANGED <<aiffVars, mainVars, sequVars, mtrkVars, notesVars, vlqVars, codecVars, stem, dry_run, header, ppq, num_bars,
                   new_events, has_leadsheet, file_meta_updated, track_bytes,
                   new_data>>

NextTag ==
    \/ TagOpen \/ TagSkip \/ TagOpenRaise \/ TagParse \/ TagParseRaise
    \/ TagRebuild \/ TagRebuildRaise \/ TagEncode \/ TagWrite

SpecTag == InitTag /\ [][NextTag]_vars

----------------------------------------------------------------------------
(* Properties of tag_file.                                                 *)

\* the MCURATOR object a text meta event carries, if it carries one
McLoad(ev) ==
    IF ev[1] = "meta" /\ ev[3] = 1 /\ decode_utf8(ev[4]).ok
       /\ Slice(ev[4], 0, 12) = s_PREFIX
    THEN json_loads(Slice(ev[4], 12, Len(ev[4])))
    ELSE JsonError

IsFileLevel(ev) == McLoad(ev).ok /\ DictGet(McLoad(ev).val, s_type) = <<"s", s_file>>

IsLeadsheet(ev) ==
    McLoad(ev).ok /\ DictGet(McLoad(ev).val, s_type) = <<"s", s_leadsheet>>

VpKeys == {s_vpSource, s_vpPattern, s_vpIntensity}

\* new is old with the three fields set to the values of fn and every
\* other key kept
PatchedObject(old, new, fn) ==
    /\ DictGet(new, s_vpSource) = <<"s", fn.vp_source>>
    /\ DictGet(new, s_vpPattern) = <<"s", fn.pattern_name>>
    /\ DictGet(new, s_vpIntensity) = <<"s", fn.intensity>>
    /\ DictKeys(new) = DictKeys(old) \cup VpKeys
    /\ \A k \in DictKeys(old) \ VpKeys : DictGet(new, k) = DictGet(old, k)

\* tag_file has built track_bytes
TagEncoded == pc = "tag_write" \/ (pc = "tag_done" /\ ret.ok)

\* tag_file has built new_events
TagRebuilt == pc = "tag_encode" \/ TagEncoded

\* the events of the re-encoded track
Reparsed == parse_events(track_bytes, 0, Len(track_bytes))

\* position in the new track of the i-th old event, when the new track has
\* one more event at position ins (ins = 0: no more event)
Shifted(i, ins) == IF ins = 0 \/ i < ins THEN i ELSE i + 1

\* C4: with exactly one file-level event in the parsed stream, every other
\* event is in the re-encoded track unchanged and in the same order, and
\* the target keeps tick and kind and carries the patched object.
PatchLocality ==
    (TagEncoded /\ Cardinality({i \in 1..Len(events) : IsFileLevel(events[i])}) = 1) =>
        LET n  == Len(events)
            i0 == CHOOSE i \in 1..n : IsFileLevel(events[i])
            r  == Reparsed
        IN  /\ r.ok
            /\ \E ins \in 0..Len(r.events) :
                  /\ Len(r.events) = IF ins = 0 THEN n ELSE n + 1
                  /\ \A i \in (1..n) \ {i0} : r.events[Shifted(i, ins)] = events[i]
                  /\ LET ne == r.events[Shifted(i0, ins)] IN
                        /\ ne[1] = "meta" /\ ne[2] = events[i0][2] /\ ne[3] = 1
                        /\ McLoad(ne).ok
                        /\ PatchedObject(McLoad(events[i0]).val, McLoad(ne).val,
                                         parse_filename(stem))

\* three events, the file-level one in the middle and rewritten
PatchLocalityWitness ==
    /\ pc = "tag_done" /\ ret.ok /\ ~dry_run
    /\ Len(events) = 3
    /\ IsFileLevel(events[2]) /\ ~IsFileLevel(events[1]) /\ ~IsFileLevel(events[3])
    /\ events[2][4] = TextFileSpaced
    /\ new_events[2] # events[2]
    /\ events[1][1] = "midi" /\ events[3][1] = "midi"
    /\ file = new_data

\* C5: one run rewrites at most one file-level event, and leaves every
\* other event as it was and where it was.
AtMostOneRewritten ==
    TagRebuilt =>
        /\ Cardinality({i \in 1..Len(events) : new_events[i] # events[i]}) <= 1
        /\ \A i \in 1..Len(events) :
              ~IsFileLevel(events[i]) => new_events[i] = events[i]

\* the tick of the last note-off of the parsed stream, 0 without one
LastNoteOffTick ==
    LET offs == { events[i][2] : i \in { j \in 1..Len(events) :
                     /\ events[j][1] = "midi"
                     /\ \/ events[j][3] \div 16 = 8
                        \/ events[j][3] \div 16 = 9 /\ events[j][4][2] = 0 } }
    IN  IF offs = {} THEN 0 ELSE CHOOSE t \in offs : \A u \in offs : u <= t

\* C6: without a leadsheet event, exactly one text meta event at tick 0 is
\* appended, of type leadsheet with bars = max(1, ceil(T / (4 * Q))); with
\* one, nothing is appended and the leadsheet events stay as they are.
LeadsheetInsertion ==
    TagRebuilt =>
        LET n == Len(events) IN
        IF \A i \in 1..n : ~IsLeadsheet(events[i])
        THEN /\ Len(new_events) = n + 1
             /\ new_events[n + 1][1] = "meta"
             /\ new_events[n + 1][2] = 0
             /\ new_events[n + 1][3] = 1
             /\ IsLeadsheet(new_events[n + 1])
             /\ DictGet(McLoad(new_events[n + 1]).val, s_bars)
                    = <<"n", Max(1, CeilDiv(LastNoteOffTick, 4 * ppq))>>
             /\ Cardinality({i \in 1..(n + 1) : IsLeadsheet(new_events[i])}) = 1
             /\ ppq >= 1
        ELSE /\ Len(new_events) = n
             /\ \A i \in 1..n : IsLeadsheet(events[i]) => new_events[i] = events[i]

\* last note-off at tick 97 with 24 ticks per quarter note: two bars
LeadsheetInsertionWitness ==
    /\ pc = "tag_done" /\ ret.ok
    /\ ppq = 24
    /\ LastNoteOffTick = 97
    /\ \A i \in 1..Len(events) : ~IsLeadsheet(events[i])
    /\ num_bars = 2
    /\ DictGet(McLoad(new_events[Len(new_events)]).val, s_bars) = <<"n", 2>>

----------------------------------------------------------------------------
(* The note assembler: parse_notes of analyze-vp-intensity.py.  A note is  *)
(* <<onset_tick, pitch, velocity, duration_ticks>>.  The dict active is    *)
(* the sequence of its entries <<pitch, onset_tick, velocity>> in          *)
(* insertion order.                                                        *)

ActivePitches(act) == { act[i][1] : i \in 1..Len(act) }

\* active[p]
ActiveAt(act, p) == act[CHOOSE i \in 1..Len(act) : act[i][1] = p]

\* active[p] = (t, v): an existing key keeps its place
ActiveSet(act, p, t, v) ==
    IF p \in ActivePitches(act)
    THEN [i \in 1..Len(act) |-> IF act[i][1] = p THEN <<p, t, v>> ELSE act[i]]
    ELSE Append(act, <<p, t, v>>)

\* active without the key p
RECURSIVE ActiveDel(_, _)
ActiveDel(act, p) ==
    IF act = << >> THEN << >>
    ELSE IF Head(act)[1] = p THEN Tail(act)
    ELSE <<Head(act)>> \o ActiveDel(Tail(act), p)

NoteState(a, n) == [active |-> a, notes |-> n]

\* A note-off that leaves the pitch in active.
note_off_nopop(d1, t, e, act, nts) ==
    NoteState(act, Append(nts, <<e[2], d1, e[3], t - e[2]>>))

\* onset, vel = active.pop(d1); notes.append((onset, d1, vel, time - onset))
note_off(d1, t, e, act, nts) ==
    NoteState(ActiveDel(act, d1), Append(nts, <<e[2], d1, e[3], t - e[2]>>))

\* What parse_notes does with a two-data-byte channel event (cmd, d1, d2)
\* at tick t: lines 87-92, and again lines 100-105.
note_event(cmd, d1, d2, t, act, nts) ==
    IF cmd = 9 /\ d2 > 0 THEN NoteState(ActiveSet(act, d1, t, d2), nts)
    ELSE IF cmd = 8 \/ (cmd = 9 /\ d2 = 0) THEN
        IF d1 \in ActivePitches(act)
        THEN note_off(d1, t, ActiveAt(act, d1), act, nts)
        ELSE NoteState(act, nts)
    ELSE NoteState(act, nts)

\* The locals of parse_notes' loop after an iteration; cmd, d1, d2 are the
\* channel event the iteration decoded (cmd = 0: none).
NotesState(p, t, ls, ns, br, c, b1, b2) ==
    [ok |-> TRUE, tpos |-> p, time |-> t, last_status |-> ls,
     active |-> ns.active, notes |-> ns.notes, branch |-> br,
     cmd |-> c, d1 |-> b1, d2 |-> b2]

NotesError ==
    [ok |-> FALSE, tpos |-> 0, time |-> 0, last_status |-> 0, active |-> << >>,
     notes |-> << >>, branch |-> "raise", cmd |-> 0, d1 |-> 0, d2 |-> 0]

\* the channel arms: p is the position of the first data byte
notes_channel(buf, p, t, status, act, nts, br) ==
    IF (status \div 16) \in TwoDataCmds THEN
        IF ~InRange(buf, p) \/ ~InRange(buf, p + 1) THEN NotesError
        ELSE NotesState(p + 2, t, status,
                 note_event(status \div 16, At(buf, p), At(buf, p + 1), t, act, nts),
                 br, status \div 16, At(buf, p), At(buf, p + 1))
    ELSE IF (status \div 16) \in OneDataCmds
    THEN NotesState(p + 1, t, status, NoteState(act, nts), br, 0, 0, 0)
    ELSE NotesState(p, t, status, NoteState(act, nts), br, 0, 0, 0)

\* meta (after 0xFF and the type at p) and sysex (after the status at p):
\* a VLQ length at q, the payload skipped
notes_skip(buf, q, t, act, nts, br) ==
    IF ~read_varlen(buf, q).ok THEN NotesError
    ELSE NotesState(read_varlen(buf, q).pos + read_varlen(buf, q).value, t, 0,
                    NoteState(act, nts), br, 0, 0, 0)

\* the iteration once the delta is read: p is the position of b
notes_record(buf, p, t, ls, act, nts) ==
    IF ~InRange(buf, p) THEN NotesError
    ELSE IF At(buf, p) = 255 THEN
        IF ~InRange(buf, p + 1) THEN NotesError
        ELSE notes_skip(buf, p + 2, t, act, nts, "meta")
    ELSE IF At(buf, p) = 240 \/ At(buf, p) = 247
         THEN notes_skip(buf, p + 1, t, act, nts, "sysex")
    ELSE IF At(buf, p) >= 128
         THEN notes_channel(buf, p + 1, t, At(buf, p), act, nts, "status")
    ELSE notes_channel(buf, p, t, ls, act, nts, "running")

notes_delta(buf, dl, st) ==
    IF ~dl.ok THEN NotesError
    ELSE notes_record(buf, dl.pos, st.time + dl.value, st.last_status,
                      st.active, st.notes)

\* One iteration of the while loop of parse_notes.
notes_step(buf, st) == notes_delta(buf, read_varlen(buf, st.tpos), st)

\* for pitch, (onset, vel) in active.items(): notes.append(...)
RECURSIVE close_open(_, _, _)
close_open(act, t, nts) ==
    IF act = << >> THEN nts
    ELSE close_open(Tail(act), t,
             Append(nts, <<Head(act)[2], Head(act)[1], Head(act)[3], t - Head(act)[2]>>))

\* An end of stream that does not sort.
close_notes_unsorted(act, t, nts) == close_open(act, t, nts)

\* Lines 110-113: close the open notes, sort by onset.
close_notes(act, t, nts) == SortedByField(close_open(act, t, nts), 1)

\* max((n[0] + n[3] for n in notes), default=0)
last_end_of(nts) ==
    IF nts = << >> THEN 0
    ELSE CHOOSE e \in { nts[i][1] + nts[i][4] : i \in 1..Len(nts) } :
             \A i \in 1..Len(nts) : nts[i][1] + nts[i][4] <= e

\* Lines 51-57: ok = FALSE is a struct.error
notes_open(f) ==
    IF Len(Slice(f, 4, 8)) # 4 \/ Len(Slice(f, 8, 14)) # 6
    THEN [ok |-> FALSE, ppq |-> 0, pos |-> 0, tlen |-> 0]
    ELSE IF Len(Slice(f, 8 + U32(Slice(f, 4, 8)) + 4, 8 + U32(Slice(f, 4, 8)) + 8)) # 4
    THEN [ok |-> FALSE, ppq |-> 0, pos |-> 0, tlen |-> 0]
    ELSE [ok |-> TRUE, ppq |-> U16(Slice(f, 12, 14)), pos |-> 8 + U32(Slice(f, 4, 8)),
          tlen |-> U32(Slice(f, 8 + U32(Slice(f, 4, 8)) + 4,
                             8 + U32(Slice(f, 4, 8)) + 8))]

----------------------------------------------------------------------------
(* parse_notes on one file: the header, the loop record by record, the     *)
(* closing of the open notes.                                              *)

MaxNoteRecords == 4

NotesPool ==
    { <<0, 144, 60, 100>>,     \* delta 0, note-on pitch 60 velocity 100
      <<10, 144, 64, 90>>,     \* delta 10, note-on pitch 64 velocity 90
      <<50, 60, 80>>,          \* delta 50, running status: 60, 80
      <<90, 128, 60, 0>>,      \* delta 90, note-off pitch 60
      <<10, 64, 0>>,           \* delta 10, running status: 64, 0
      <<0, 192, 5>>,           \* program change
      <<0, 255, 47, 0>>,       \* end of track
      <<0, 240, 1, 247>> }     \* sysex

NotesTracks(n) == UNION { { Concat(c) : c \in [1..k -> NotesPool] } : k \in 0..n }

NotesFiles(n) ==
    { MidiFile(24, t) : t \in NotesTracks(n) }
    \cup { b_MThd \o <<0, 0>>,                       \* cut inside the header
           MidiFile(0, <<0, 144, 60, 100>>) }        \* zero ticks per quarter note

InitNotes ==
    /\ pc = "notes_start"
    /\ file \in NotesFiles(MaxNoteRecords)
    /\ tpos = 0 /\ active = << >> /\ notes = << >> /\ nret = <<"none">>
    /\ stem = "" /\ dry_run = FALSE /\ header = << >> /\ ppq = 0
    /\ num_bars = 0 /\ new_events = << >> /\ has_leadsheet = FALSE
    /\ file_meta_updated = FALSE /\ track_bytes = << >> /\ new_data = << >>
    /\ ret = <<"none">>
    /\ IdleVlq
    /\ IdleCodec
    /\ IdleAiff
    /\ IdleMain
    /\ IdleSequ
    /\ IdleMidiTrack

\* what parse_notes leaves alone
notesFrame == <<vlqVars, aiffVars, mainVars, sequVars, mtrkVars, track, events, encoded, stem, dry_run, file, header,
                new_events, has_leadsheet, file_meta_updated, track_bytes,
                new_data, ret>>

NotesOpenTo(o) ==
    /\ o.ok
    /\ data' = file
    /\ ppq' = o.ppq
    /\ pos' = o.pos
    /\ end' = o.pos + 8 + o.tlen
    /\ tpos' = o.pos + 8
    /\ time' = 0
    /\ last_status' = 0
    /\ active' = << >>
    /\ notes' = << >>
    /\ pc' = "notes_loop"
    /\ UNCHANGED <<notesFrame, num_bars, nret>>

NotesOpen ==
    /\ pc = "notes_start"
    /\ NotesOpenTo(notes_open(file))

NotesOpenRaise ==
    /\ pc = "notes_start"
    /\ ~notes_open(file).ok
    /\ pc' = "notes_raised"
    /\ UNCHANGED <<vlqVars, codecVars, tagVars, notesVars, aiffVars, mainVars, sequVars, mtrkVars>>

NStep ==
    notes_step(data, [tpos |-> tpos, time |-> time, last_status |-> last_status,
                      active |-> active, notes |-> notes])

NotesTakeTo(s, br) ==
    /\ s.ok
    /\ s.branch = br
    /\ tpos' = s.tpos
    /\ time' = s.time
    /\ last_status' = s.last_status
    /\ active' = s.active
    /\ notes' = s.notes
    /\ UNCHANGED <<pc, notesFrame, data, pos, end, ppq, num_bars, nret>>

NotesMeta ==
    /\ pc = "notes_loop"
    /\ tpos < end
    /\ NotesTakeTo(NStep, "meta")

NotesSysex ==
    /\ pc = "notes_loop"
    /\ tpos < end
    /\ NotesTakeTo(NStep, "sysex")

NotesStatus ==
    /\ pc = "notes_loop"
    /\ tpos < end
    /\ NotesTakeTo(NStep, "status")

NotesRunning ==
    /\ pc = "notes_loop"
    /\ tpos < end
    /\ NotesTakeTo(NStep, "running")

\* data[tpos] past the end of the buffer
NotesRaise ==
    /\ pc = "notes_loop"
    /\ tpos < end
    /\ ~NStep.ok
    /\ pc' = "notes_raised"
    /\ UNCHANGED <<vlqVars, codecVars, tagVars, notesVars, aiffVars, mainVars, sequVars, mtrkVars>>

\* Lines 109-119: close, sort, count the bars, return
NotesCloseTo(nts) ==
    /\ notes' = nts
    /\ num_bars' = Max(1, Ceil(last_end_of(nts), ppq * 4))
    /\ nret' = [notes |-> nts, ppq |-> ppq,
                num_bars |-> Max(1, Ceil(last_end_of(nts), ppq * 4))]
    /\ pc' = "notes_done"
    /\ UNCHANGED <<notesFrame, data, pos, end, time, last_status, ppq, tpos, active>>

NotesClose ==
    /\ pc = "notes_loop"
    /\ ~(tpos < end)
    /\ ppq * 4 # 0
    /\ NotesCloseTo(close_notes(active, time, notes))

\* ppq = 0: last_end / ticks_per_bar divides by zero, after the sort
NotesCloseRaise ==
    /\ pc = "notes_loop"
    /\ ~(tpos < end)
    /\ ppq * 4 = 0
    /\ notes' = close_notes(active, time, notes)
    /\ pc' = "notes_raised"
    /\ UNCHANGED <<notesFrame, data, pos, end, time, last_status, ppq, tpos, active,
                   num_bars, nret>>

NextNotes ==
    \/ NotesOpen \/ NotesOpenRaise
    \/ NotesMeta \/ NotesSysex \/ NotesStatus \/ NotesRunning \/ NotesRaise
    \/ NotesClose \/ NotesCloseRaise

SpecNotes == InitNotes /\ [][NextNotes]_vars

----------------------------------------------------------------------------
(* Properties of the note assembler.                                       *)

\* the loop of parse_notes is about to decode a two-data-byte channel event
NoteRecordNext == pc = "notes_loop" /\ tpos < end /\ NStep.ok /\ NStep.cmd # 0

NoteOnNext == NoteRecordNext /\ NStep.cmd = 9 /\ NStep.d2 > 0

NoteOffNext == NoteRecordNext /\ (NStep.cmd = 8 \/ (NStep.cmd = 9 /\ NStep.d2 = 0))

\* the note a sounding pitch p closes into at tick t
ClosedAt(p, t) == <<ActiveAt(active, p)[2], p, ActiveAt(active, p)[3],
                    t - ActiveAt(active, p)[2]>>

\* C7: a note-on with velocity > 0 at tick t for a pitch that is already
\* sounding with (o, v) emits the closed note (o, p, v, t - o) and then
\* records the new onset (t, new velocity).
RetriggerEmitsNote ==
    [][(NoteOnNext /\ NStep.d1 \in ActivePitches(active))
       => /\ notes' = Append(notes, ClosedAt(NStep.d1, NStep.time))
          /\ NStep.d1 \in ActivePitches(active')
          /\ ActiveAt(active', NStep.d1) = <<NStep.d1, NStep.time, NStep.d2>>]_vars

\* C8: a note-off (nibble 8, or nibble 9 with second data byte 0) at tick t
\* for a sounding pitch p emits exactly the note (o, p, v, t - o) and clears
\* p; for a pitch that is not sounding it emits nothing and changes neither
\* the sounding set nor the notes; under an explicit status byte and under
\* running status alike.
NotePairing ==
    [][NoteOffNext
       => IF NStep.d1 \in ActivePitches(active)
          THEN /\ notes' = Append(notes, ClosedAt(NStep.d1, NStep.time))
               /\ NStep.d1 \notin ActivePitches(active')
               /\ Len(active') = Len(active) - 1
               /\ \A i \in 1..Len(active) :
                      active[i][1] # NStep.d1
                          => \E j \in 1..Len(active') : active'[j] = active[i]
          ELSE notes' = notes /\ active' = active]_vars

\* note-on(60,100)@0, note-on(64,90)@10, note-off(60)@100 under an explicit
\* status byte, note-off(64)@110 under running status: exactly two notes
NotePairingWitness ==
    /\ pc = "notes_done"
    /\ data = MidiFile(24, <<0, 144, 60, 100, 10, 144, 64, 90,
                             90, 128, 60, 0, 10, 64, 0>>)
    /\ notes = << <<0, 60, 100, 100>>, <<10, 64, 90, 100>> >>
    /\ active = << >>

\* C9: when parse_notes has returned, every pitch that was still sounding at
\* the end of the track is among the notes with duration final tick - onset,
\* every note has a duration >= 0, and the notes are in ascending order of
\* onset.
EndOfStreamClosing ==
    pc = "notes_done"
    => /\ nret.notes = notes
       /\ \A i \in 1..Len(active) :
              \E j \in 1..Len(notes) :
                  notes[j] = <<active[i][2], active[i][1], active[i][3],
                               time - active[i][2]>>
       /\ \A j \in 1..Len(notes) : notes[j][4] >= 0
       /\ \A i, j \in 1..Len(notes) : i < j => notes[i][1] <= notes[j][1]

\* 60 sounds from tick 0 to the end of the track at tick 30 and sorts before
\* the note of 64 that was completed first; 64 sounds again from the final
\* tick and is closed with duration zero
EndOfStreamClosingWitness ==
    /\ pc = "notes_done"
    /\ Len(active) = 2
    /\ time = 30
    /\ notes = << <<0, 60, 100, 30>>, <<10, 64, 90, 10>>, <<30, 64, 90, 0>> >>

----------------------------------------------------------------------------
(* The chunk reader: read_aiff_chunks of dump-sequ.py.  The dict chunks is *)
(* the sequence of its entries <<ck_id, payload>> in insertion order.      *)

\* b"FORM"
b_FORM == <<70, 79, 82, 77>>

\* b"AIFF"
b_AIFF == <<65, 73, 70, 70>>

\* b"Sequ"
b_Sequ == <<83, 101, 113, 117>>

\* b"basc"
b_basc == <<98, 97, 115, 99>>

\* b".mid"
b_mid == <<46, 109, 105, 100>>

\* ck_id and ck_size of the header at p
ck_id_at(buf, p) == Slice(buf, p, p + 4)

ck_size_at(buf, p) == U32(Slice(buf, p + 4, p + 8))

\* pos += 8 + ck_size, without the test for an odd position
after_chunk_nopad(p, size) == p + 8 + size

\* pos += 8 + ck_size; if pos % 2 == 1: pos += 1
after_chunk(p, size) ==
    IF (p + 8 + size) % 2 = 1 THEN p + 8 + size + 1 ELSE p + 8 + size

MaxChunks == 3

\* whole chunks as a producer writes them: header, payload, pad byte
ChunkPool ==
    { b_Sequ \o PackU32(0),
      b_basc \o PackU32(1) \o <<7>> \o <<0>>,
      b_mid \o PackU32(2) \o <<1, 2>>,
      b_Sequ \o PackU32(3) \o <<4, 5, 6>> \o <<0>>,
      b_basc \o PackU32(2) \o <<8, 9>> }

\* what a file ends with after its whole chunks
ChunkTails ==
    { << >>,
      <<0, 0, 0>>,                                \* less than a header
      b_basc \o PackU32(1) \o <<7>>,              \* odd size, no pad byte
      b_Sequ \o PackU32(4) \o <<1, 2>>,           \* declares 4 bytes, holds 2
      b_basc \o PackU32(3) \o <<1>> }             \* declares 3 bytes, holds 1

ChunkBodies(n) == UNION { { Concat(c) : c \in [1..k -> ChunkPool] } : k \in 0..n }

AiffFile(body) == b_FORM \o PackU32(4 + Len(body)) \o b_AIFF \o body

AiffFiles(n) ==
    { AiffFile(b \o t) : b \in ChunkBodies(n), t \in ChunkTails }
    \cup { << >>, <<70, 79>>, MidiFile(24, <<0, 255, 47, 0>>) }

InitAiff ==
    /\ pc = "aiff_start"
    /\ data \in AiffFiles(MaxChunks)
    /\ track = << >> /\ pos = 0 /\ end = 0 /\ time = 0
    /\ last_status = 0 /\ events = << >> /\ encoded = << >>
    /\ chunks = << >>
    /\ IdleMain
    /\ IdleSequ
    /\ IdleMidiTrack
    /\ IdleVlq
    /\ IdleTag
    /\ IdleNotes

\* what read_aiff_chunks leaves alone
aiffFrame == <<vlqVars, tagVars, notesVars, mainVars, sequVars, mtrkVars, track, data, end, time, last_status,
               events, encoded>>

\* Lines 25-28
AiffStart ==
    /\ pc = "aiff_start"
    /\ Slice(data, 0, 4) = b_FORM
    /\ pos' = 12
    /\ chunks' = << >>
    /\ pc' = "aiff_loop"
    /\ UNCHANGED aiffFrame

\* raise ValueError("Not an AIFF file")
AiffNotForm ==
    /\ pc = "aiff_start"
    /\ Slice(data, 0, 4) # b_FORM
    /\ pc' = "aiff_raised"
    /\ UNCHANGED <<aiffFrame, pos, chunks>>

\* Lines 29-35: one iteration of the while loop
AiffChunk ==
    /\ pc = "aiff_loop"
    /\ pos + 8 <= Len(data)
    /\ chunks' = DictSet(chunks, ck_id_at(data, pos),
                         Slice(data, pos + 8, pos + 8 + ck_size_at(data, pos)))
    /\ pos' = after_chunk(pos, ck_size_at(data, pos))
    /\ UNCHANGED <<pc, aiffFrame>>

\* return chunks
AiffReturn ==
    /\ pc = "aiff_loop"
    /\ ~(pos + 8 <= Len(data))
    /\ pc' = "aiff_done"
    /\ UNCHANGED <<aiffFrame, pos, chunks>>

NextAiff == AiffStart \/ AiffNotForm \/ AiffChunk \/ AiffReturn

SpecAiff == InitAiff /\ [][NextAiff]_vars

----------------------------------------------------------------------------
(* Properties of the chunk reader.                                         *)

\* the loop of read_aiff_chunks is about to read the header at pos
ChunkNext == pc = "aiff_loop" /\ pos + 8 <= Len(data)

\* the walk skips one byte after the payload exactly when the declared size
\* is odd, and every header is read at an even offset
PadIffOdd ==
    [][ChunkNext
       => /\ pos % 2 = 0
          /\ pos' = pos + 8 + ck_size_at(data, pos)
                    + (IF ck_size_at(data, pos) % 2 = 1 THEN 1 ELSE 0)]_vars

\* C10: read_aiff_chunks skips exactly one pad byte after a chunk's payload
\* if and only if its declared size is odd; every chunk header is read at an
\* even offset and the payload stored for its identifier is exactly the
\* declared number of bytes following the 8-byte header.
ChunkPadding ==
    [][ChunkNext
       => /\ pos % 2 = 0
          /\ pos' = pos + 8 + ck_size_at(data, pos)
                    + (IF ck_size_at(data, pos) % 2 = 1 THEN 1 ELSE 0)
          /\ Len(DictGet(chunks', ck_id_at(data, pos))) = ck_size_at(data, pos)
          /\ \A k \in 1..ck_size_at(data, pos) :
                 /\ InRange(data, pos + 8 + k - 1)
                 /\ DictGet(chunks', ck_id_at(data, pos))[k] = At(data, pos + 8 + k - 1)]_vars

\* C11: when the declared size of the chunk at pos exceeds the bytes that
\* remain after its 8-byte header, read_aiff_chunks fails: it stores no
\* payload for that chunk and does not go on to return a mapping.
TruncatedContainerFails ==
    [][(ChunkNext /\ ck_size_at(data, pos) > Len(data) - (pos + 8))
       => (pc' = "aiff_raised" /\ chunks' = chunks)]_vars

----------------------------------------------------------------------------
(* tag_file as one call, and the batch driver main of tag-vp-midi.py.      *)

\* what a call of tag_file does: outcome "ok" is return True, "skip" return
\* False, "raise" an exception that leaves tag_file; file is the file's
\* bytes after the call.
TagResult(outc, f, m) == [outcome |-> outc, file |-> f, msg |-> m]

\* Lines 237-256
tag_file_written(hd, f, dr, nb, rb, tb) ==
    TagResult("ok",
              IF dr THEN f ELSE hd \o b_MTrk \o PackU32(Len(tb)) \o tb,
              [bars |-> nb.bars, warning |-> ~rb.file_meta_updated,
               leadsheet |-> IF rb.has_leadsheet THEN "existing" ELSE "added"])

\* A rebuild that appends a leadsheet event whether or not there is one.
tag_file_rebuilt_always(hd, f, dr, nb, rb) ==
    IF ~nb.ok THEN TagResult("raise", f, "ZeroDivisionError")
    ELSE tag_file_written(hd, f, dr, nb, rb,
             encode_events(Append(rb.new_events, leadsheet_event(nb.bars))))

\* Lines 204-238
tag_file_rebuilt(hd, f, dr, nb, rb) ==
    IF ~nb.ok THEN TagResult("raise", f, "ZeroDivisionError")
    ELSE tag_file_written(hd, f, dr, nb, rb,
             encode_events(IF rb.has_leadsheet THEN rb.new_events
                           ELSE Append(rb.new_events, leadsheet_event(nb.bars))))

\* Lines 202-235
tag_file_parsed(o, st, f, dr, r) ==
    IF ~r.ok THEN TagResult("raise", f, "IndexError")
    ELSE tag_file_rebuilt(o.header, f, dr, compute_num_bars(r.events, o.ppq),
                          rebuild(r.events, parse_filename(st)))

\* Lines 183-202
tag_file_opened(o, st, f, dr) ==
    IF o.outcome = "skip" THEN TagResult("skip", f, o.msg)
    ELSE IF o.outcome = "raise" THEN TagResult("raise", f, o.msg)
    ELSE tag_file_parsed(o, st, f, dr,
                         parse_events(f, o.pos + 8, o.pos + 8 + o.tlen))

tag_file(st, f, dr) == tag_file_opened(tag_open(st, f), st, f, dr)

\* sorted(midi_dir.glob('*.mid')): the names a directory can hold, in order
SortedStems ==
    << "VP-GRIT - 120 bpm - Rock - 5 - 01",
       "VP-VIBE - Basic: 90 bpm - Soul - 10a - 02",
       "readme" >>

\* what a file of the directory holds
BatchFiles ==
    { MidiFile(24, <<0, 144, 60, 100, 96, 128, 60, 0>>
                   \o TextRecord(0, TextFileSpaced) \o <<0, 255, 47, 0>>),
      MidiFile(24, <<0, 255, 47, 0>>),
      MidiHeader(24) \o b_MTrk \o PackU32(4) \o <<0, 144, 60>>,  \* track cut short
      << >> }                                                    \* empty

\* the files of names[1..k], each name present or not
RECURSIVE Directories(_)
Directories(k) ==
    IF k = 0 THEN { << >> }
    ELSE LET rest == Directories(k - 1)
         IN  rest \cup { Append(d, <<SortedStems[k], f>>) : d \in rest, f \in BatchFiles }

InitTagMain ==
    /\ pc = "main_loop"
    /\ midi_files \in Directories(Len(SortedStems))
    /\ idx = 0
    /\ ok_count = 0
    /\ skip_count = 0
    /\ printed = << >>
    /\ stem = "" /\ dry_run \in BOOLEAN /\ file = << >> /\ header = << >> /\ ppq = 0
    /\ num_bars = 0 /\ new_events = << >> /\ has_leadsheet = FALSE
    /\ file_meta_updated = FALSE /\ track_bytes = << >> /\ new_data = << >>
    /\ ret = <<"none">>
    /\ IdleVlq
    /\ IdleCodec
    /\ IdleNotes
    /\ IdleAiff
    /\ IdleSequ
    /\ IdleMidiTrack

\* what main leaves alone
mainFrame == <<vlqVars, codecVars, notesVars, aiffVars, sequVars, mtrkVars, stem, dry_run, file, header,
               ppq, num_bars, new_events, has_leadsheet, file_meta_updated,
               track_bytes, new_data, ret>>

\* Lines 284-291: tag_file returned for the file at idx + 1
MainTagTo(st, r) ==
    /\ r.outcome # "raise"
    /\ midi_files' = [midi_files EXCEPT ![idx + 1] = <<st, r.file>>]
    /\ printed' = Append(printed, <<st, r.outcome, r.msg>>)
    /\ ok_count' = IF r.outcome = "ok" THEN ok_count + 1 ELSE ok_count
    /\ skip_count' = IF r.outcome = "ok" THEN skip_count ELSE skip_count + 1
    /\ idx' = idx + 1
    /\ UNCHANGED <<pc, mainFrame>>

MainTagged ==
    /\ pc = "main_loop"
    /\ idx < Len(midi_files)
    /\ MainTagTo(midi_files[idx + 1][1],
                 tag_file(midi_files[idx + 1][1], midi_files[idx + 1][2], dry_run))

\* Line 284 has no try: an exception of tag_file leaves main
MainRaise ==
    /\ pc = "main_loop"
    /\ idx < Len(midi_files)
    /\ tag_file(midi_files[idx + 1][1], midi_files[idx + 1][2], dry_run).outcome = "raise"
    /\ pc' = "main_raised"
    /\ UNCHANGED <<mainFrame, mainVars>>

\* Lines 293-295: the summary line
MainReturn ==
    /\ pc = "main_loop"
    /\ ~(idx < Len(midi_files))
    /\ pc' = "main_done"
    /\ UNCHANGED <<mainFrame, mainVars>>

NextTagMain == MainTagged \/ MainRaise \/ MainReturn

SpecTagMain == InitTagMain /\ [][NextTagMain]_vars

\* C12: a failure while tagging one file ends the processing of that file
\* only: when main has ended, every file of the batch has been processed and
\* reported.
BatchIsolation ==
    pc \in {"main_done", "main_raised"}
    => idx = Len(midi_files) /\ Len(printed) = Len(midi_files)

----------------------------------------------------------------------------
(* Further properties of tag_file.                                         *)

\* C13: the file's bytes change only in the last step of tag_file, without
\* dry_run, and become the complete image header + 'MTrk' + length +
\* encoded track; a call that returns failure, raises or runs under dry_run
\* leaves them as they were.
AllOrNothingWrite ==
    [][/\ file' # file
          => /\ pc = "tag_write" /\ pc' = "tag_done" /\ ~dry_run /\ ret'.ok
             /\ track_bytes = encode_events(new_events)
             /\ file' = header \o b_MTrk \o PackU32(Len(track_bytes)) \o track_bytes
       /\ (pc' = "tag_raised" \/ (pc' = "tag_done" /\ (~ret'.ok \/ dry_run)))
          => file' = file]_vars

\* a dry run that succeeded: the image differs from the file, which is as
\* it was read
AllOrNothingWriteWitness ==
    /\ pc = "tag_done" /\ ret.ok /\ dry_run
    /\ new_data # file
    /\ file = data
    /\ Len(events) >= 1

\* C14: without a file-level event in the stream tag_file returns success
\* with the warning marker, rewrites no event, and appends the leadsheet
\* event when there is none; a return of failure has one of the three
\* reasons of lines 183-200.
MissingFileMetaWarns ==
    /\ (pc = "tag_done" /\ ~ret.ok)
           => ret.msg \in {"Could not parse filename", "Not a MIDI file", "Expected MTrk"}
    /\ (pc = "tag_done" /\ ret.ok /\ \A i \in 1..Len(events) : ~IsFileLevel(events[i]))
           => /\ ret.msg.warning
              /\ ~file_meta_updated
              /\ Len(new_events) >= Len(events)
              /\ \A i \in 1..Len(events) : new_events[i] = events[i]
              /\ IF \A i \in 1..Len(events) : ~IsLeadsheet(events[i])
                 THEN /\ Len(new_events) = Len(events) + 1
                      /\ IsLeadsheet(new_events[Len(events) + 1])
                      /\ ret.msg.leadsheet = "added"
                 ELSE /\ Len(new_events) = Len(events)
                      /\ ret.msg.leadsheet = "existing"

\* two events, neither file-level nor leadsheet: warning, leadsheet added,
\* file written
MissingFileMetaWarnsWitness ==
    /\ pc = "tag_done" /\ ret.ok /\ ~dry_run
    /\ Len(events) = 2
    /\ \A i \in 1..2 : ~IsFileLevel(events[i]) /\ ~IsLeadsheet(events[i])
    /\ ret.msg.warning
    /\ ret.msg.leadsheet = "added"
    /\ Len(new_events) = 3
    /\ file = new_data

----------------------------------------------------------------------------
(* The record scanner: iter_sequ_records of dump-sequ.py, consumed by      *)
(* list(...).  A record is <<offset, raw_bytes>>.                          *)

RECORD_SIZE == 32

\* struct.unpack_from("<H", data, off)[0]
type_val_at(buf, o) == At(buf, o) + 256 * At(buf, o + 1)

\* bytes(view[off:off+RECORD_SIZE])
record_at(buf, o) == Slice(buf, o, o + RECORD_SIZE)

\* a range that steps over every byte
next_off_byte(o) == o + 1

\* range(0, len(data) - RECORD_SIZE + 1, 2): the offset after o
next_off(o) == o + 2

MaxRegion == 37

\* where a region may hold the byte 103, and the byte 1
MarkOffsets == 0..6

OneOffsets == {1, 5}

\* the region of n bytes with 103 at the offsets of S, 1 at those of T and
\* 0 elsewhere
Region(n, S, T) ==
    [i \in 1..n |-> IF (i - 1) \in S THEN 103 ELSE IF (i - 1) \in T THEN 1 ELSE 0]

Regions(n) ==
    { Region(k, S, T) : k \in {0, 1, 31} \cup (32..n),
                        S \in SUBSET MarkOffsets, T \in SUBSET OneOffsets }

InitSequ ==
    /\ pc = "sequ_loop"
    /\ data \in Regions(MaxRegion)
    /\ off = 0
    /\ records = << >>
    /\ track = << >> /\ pos = 0 /\ end = 0 /\ time = 0
    /\ last_status = 0 /\ events = << >> /\ encoded = << >>
    /\ IdleVlq
    /\ IdleTag
    /\ IdleNotes
    /\ IdleAiff
    /\ IdleMain
    /\ IdleMidiTrack

\* what iter_sequ_records leaves alone
sequFrame == <<vlqVars, codecVars, tagVars, notesVars, aiffVars, mainVars, mtrkVars>>

\* Lines 158-161: an offset whose u16 is 103
SequYield ==
    /\ pc = "sequ_loop"
    /\ off < Len(data) - RECORD_SIZE + 1
    /\ type_val_at(data, off) = 103
    /\ records' = Append(records, <<off, record_at(data, off)>>)
    /\ off' = next_off(off)
    /\ UNCHANGED <<pc, sequFrame>>

\* Lines 158-160: any other offset
SequPass ==
    /\ pc = "sequ_loop"
    /\ off < Len(data) - RECORD_SIZE + 1
    /\ type_val_at(data, off) # 103
    /\ off' = next_off(off)
    /\ UNCHANGED <<pc, sequFrame, records>>

\* the range is exhausted
SequReturn ==
    /\ pc = "sequ_loop"
    /\ ~(off < Len(data) - RECORD_SIZE + 1)
    /\ pc' = "sequ_done"
    /\ UNCHANGED <<sequFrame, sequVars>>

NextSequ == SequYield \/ SequPass \/ SequReturn

SpecSequ == InitSequ /\ [][NextSequ]_vars

\* the even offsets of the region whose window of 32 bytes lies inside it
\* and starts with the little-endian u16 103
MatchOffsets ==
    { o \in 0..(Len(data) - 32) :
          o % 2 = 0 /\ data[o + 1] + 256 * data[o + 2] = 103 }

\* C15: the records yielded are exactly the pairs (off, D[off..off+32)) of
\* the even offsets 0 <= off <= len(D) - 32 whose little-endian u16 is 103,
\* in ascending order of offset; overlapping windows are all there, and a
\* region shorter than 32 bytes yields nothing.
FixedRecordScan ==
    /\ \A i \in 1..Len(records) :
          /\ records[i][1] \in MatchOffsets
          /\ records[i][2] = [k \in 1..32 |-> data[records[i][1] + k]]
    /\ \A i, j \in 1..Len(records) : i < j => records[i][1] < records[j][1]
    /\ pc = "sequ_done"
          => /\ { records[i][1] : i \in 1..Len(records) } = MatchOffsets
             /\ (Len(data) < 32 => records = << >>)

\* 37 bytes: overlapping records at 2 and 4 are yielded; the 103 at the odd
\* offset 1 and the one at 6, whose window ends past the region, are not
FixedRecordScanWitness ==
    /\ pc = "sequ_done"
    /\ Len(data) = 37
    /\ data[2] = 103 /\ data[3] = 103 /\ data[5] = 103 /\ data[7] = 103
    /\ Len(records) = 2
    /\ records[1][1] = 2 /\ records[2][1] = 4

----------------------------------------------------------------------------
(* Further properties of parse_events.                                     *)

\* the loop of parse_events is about to read a record: a delta time and the
\* byte after it
RecordNext ==
    /\ pc = "parse" /\ pos < end
    /\ read_varlen(data, pos).ok
    /\ InRange(data, read_varlen(data, pos).pos)

\* the byte where the record's status byte is expected
StatusByte == At(data, read_varlen(data, pos).pos)

\* C16: a byte with the high bit clear where a status byte is expected,
\* while no running status is set, makes parse_events fail.
NoRunningStatusFails ==
    [][(RecordNext /\ StatusByte < 128 /\ last_status = 0) => pc' = "raised"]_vars

----------------------------------------------------------------------------
(* The track parser of dump-sequ.py: parse_midi_track.  An event is        *)
(* <<absolute_tick, event_type, note, velocity>>.  read_vlq is             *)
(* read_varlen under another name.                                         *)

\* The locals of parse_midi_track's loop after an iteration; branch names
\* the way the iteration went, ok = FALSE is an IndexError.
MtState(p, tk, evs, rs, pd, br) ==
    [ok |-> TRUE, pos |-> p, tick |-> tk, events |-> evs, running_status |-> rs,
     pending_delta |-> pd, branch |-> br]

MtError ==
    [ok |-> FALSE, pos |-> 0, tick |-> 0, events |-> << >>, running_status |-> 0,
     pending_delta |-> 0, branch |-> "raise"]

\* Lines 95-115: p is the position of the first data byte, rs the running
\* status in force, tk the tick with the pending delta added
mtrk_channel(buf, p, tk, rs, evs, br) ==
    IF rs \div 16 = 9 THEN
        IF ~InRange(buf, p) \/ ~InRange(buf, p + 1) THEN MtError
        ELSE MtState(p + 2, tk,
                 Append(evs, <<tk, IF At(buf, p + 1) > 0 THEN "noteOn" ELSE "noteOff",
                               At(buf, p), At(buf, p + 1)>>), rs, 0, br)
    ELSE IF rs \div 16 = 8 THEN
        IF ~InRange(buf, p) \/ ~InRange(buf, p + 1) THEN MtError
        ELSE MtState(p + 2, tk,
                 Append(evs, <<tk, "noteOff", At(buf, p), At(buf, p + 1)>>), rs, 0, br)
    ELSE IF (rs \div 16) \in {10, 11, 14} THEN MtState(p + 2, tk, evs, rs, 0, br)
    ELSE IF (rs \div 16) \in {12, 13} THEN MtState(p + 1, tk, evs, rs, 0, br)
    ELSE MtState(p, tk, evs, rs, 0, br)

\* Lines 74-88, meta (q after the type byte) and sysex (q after the status
\* byte): a VLQ length at q, the payload skipped, continue
mtrk_skip(buf, q, st, pd, br) ==
    IF ~read_varlen(buf, q).ok THEN MtError
    ELSE MtState(read_varlen(buf, q).pos + read_varlen(buf, q).value, st.tick,
                 st.events, st.running_status, pd, br)

\* the iteration once the delta is read: p is the position after it, pd the
\* pending delta
mtrk_record(buf, p, st, pd) ==
    IF p >= Len(buf)
    THEN MtState(p, st.tick, st.events, st.running_status, pd, "break")
    ELSE IF At(buf, p) = 255 THEN
        IF ~InRange(buf, p + 1) THEN MtError
        ELSE mtrk_skip(buf, p + 2, st, pd, "meta")
    ELSE IF At(buf, p) = 240 \/ At(buf, p) = 247
         THEN mtrk_skip(buf, p + 1, st, pd, "sysex")
    ELSE IF At(buf, p) >= 128
         THEN mtrk_channel(buf, p + 1, st.tick + pd, At(buf, p), st.events, "status")
    ELSE mtrk_channel(buf, p, st.tick + pd, st.running_status, st.events, "running")

mtrk_delta(buf, dl, st) ==
    IF ~dl.ok THEN MtError
    ELSE mtrk_record(buf, dl.pos, st, st.pending_delta + dl.value)

\* One iteration of the while loop of parse_midi_track.
mtrk_step(buf, st) == mtrk_delta(buf, read_varlen(buf, st.pos), st)

\* Lines 117-121: shift the ticks so that the first noteOn is at 0
NoteOnTicks(evs) ==
    { evs[i][1] : i \in { j \in 1..Len(evs) : evs[j][2] = "noteOn" /\ evs[j][4] > 0 } }

normalise(evs) ==
    IF NoteOnTicks(evs) = {} THEN evs
    ELSE [i \in 1..Len(evs) |->
            << evs[i][1] - (CHOOSE t \in NoteOnTicks(evs) :
                               \A u \in NoteOnTicks(evs) : t <= u),
               evs[i][2], evs[i][3], evs[i][4] >>]

MaxMidiRecords == 3

MidiTrackPool ==
    { <<0, 144, 60, 100>>,        \* delta 0, note-on pitch 60 velocity 100
      <<10, 64, 90>>,             \* delta 10, no status byte: data bytes 64, 90
      <<5, 128, 60, 0>>,          \* delta 5, note-off pitch 60
      <<0, 255, 1, 1, 72>>,       \* text meta "H"
      <<0, 240, 1, 247>>,         \* sysex with a one-byte payload
      <<0, 176, 7, 100>>,         \* control change
      <<0, 192, 5>>,              \* program change
      <<0>>,                      \* a lone delta
      <<0, 255>> }                \* a meta event cut after 0xFF

MidiTracks(n) ==
    UNION { { Concat(c) : c \in [1..k -> MidiTrackPool] } : k \in 0..n }

InitMidiTrack ==
    /\ pc = "mtrk_loop"
    /\ data \in MidiTracks(MaxMidiRecords)
    /\ pos = 0
    /\ tick = 0
    /\ events = << >>
    /\ running_status = 0
    /\ pending_delta = 0
    /\ track = << >> /\ end = 0 /\ time = 0 /\ last_status = 0 /\ encoded = << >>
    /\ IdleVlq
    /\ IdleTag
    /\ IdleNotes
    /\ IdleAiff
    /\ IdleMain
    /\ IdleSequ

\* what parse_midi_track leaves alone
mtrkFrame == <<vlqVars, tagVars, notesVars, aiffVars, mainVars, sequVars, track, data,
               end, time, last_status, encoded>>

MtStep ==
    mtrk_step(data, [pos |-> pos, tick |-> tick, events |-> events,
                     running_status |-> running_status,
                     pending_delta |-> pending_delta])

MtrkTakeTo(s, br) ==
    /\ s.ok
    /\ s.branch = br
    /\ pos' = s.pos
    /\ tick' = s.tick
    /\ events' = s.events
    /\ running_status' = s.running_status
    /\ pending_delta' = s.pending_delta
    /\ UNCHANGED <<pc, mtrkFrame>>

MtrkMeta ==
    /\ pc = "mtrk_loop"
    /\ pos < Len(data)
    /\ MtrkTakeTo(MtStep, "meta")

MtrkSysex ==
    /\ pc = "mtrk_loop"
    /\ pos < Len(data)
    /\ MtrkTakeTo(MtStep, "sysex")

MtrkStatus ==
    /\ pc = "mtrk_loop"
    /\ pos < Len(data)
    /\ MtrkTakeTo(MtStep, "status")

MtrkRunning ==
    /\ pc = "mtrk_loop"
    /\ pos < Len(data)
    /\ MtrkTakeTo(MtStep, "running")

\* an IndexError leaves parse_midi_track
MtrkRaise ==
    /\ pc = "mtrk_loop"
    /\ pos < Len(data)
    /\ ~MtStep.ok
    /\ pc' = "mtrk_raised"
    /\ UNCHANGED <<mtrkFrame, pos, events, mtrkVars>>

\* Lines 70-71 and 117-123: the delta was the last byte; break, normalise,
\* return
MtrkBreakTo(s) ==
    /\ s.ok
    /\ s.branch = "break"
    /\ pos' = s.pos
    /\ pending_delta' = s.pending_delta
    /\ events' = normalise(s.events)
    /\ pc' = "mtrk_done"
    /\ UNCHANGED <<mtrkFrame, tick, running_status>>

MtrkBreak ==
    /\ pc = "mtrk_loop"
    /\ pos < Len(data)
    /\ MtrkBreakTo(MtStep)

\* Lines 117-123: the loop test failed; normalise, return
MtrkReturn ==
    /\ pc = "mtrk_loop"
    /\ ~(pos < Len(data))
    /\ events' = normalise(events)
    /\ pc' = "mtrk_done"
    /\ UNCHANGED <<mtrkFrame, pos, mtrkVars>>

NextMidiTrack ==
    \/ MtrkMeta \/ MtrkSysex \/ MtrkStatus \/ MtrkRunning \/ MtrkRaise
    \/ MtrkBreak \/ MtrkReturn

SpecMidiTrack == InitMidiTrack /\ [][NextMidiTrack]_vars

\* the loop of parse_midi_track is about to read a Meta or SysEx event
MetaOrSysexNext ==
    /\ pc = "mtrk_loop" /\ pos < Len(data)
    /\ MtStep.ok
    /\ MtStep.branch \in {"meta", "sysex"}

\* C17: once a Meta or a SysEx event is consumed the running status is
\* unset.
MetaClearsRunningStatus ==
    [][MetaOrSysexNext => running_status' = 0]_vars

----------------------------------------------------------------------------
(* Properties of the parsed and of the written track.                      *)

\* C18: every record the loop of parse_events reads without raising adds
\* exactly one event at the end of the list, with the absolute tick of the
\* record (the ticks before it plus its delta time), whatever its status
\* byte; the events before it stay as they are.
EveryRecordKept ==
    [][(RecordNext /\ (StatusByte >= 128 \/ last_status # 0) /\ pc' = "parse")
       => /\ Len(events') = Len(events) + 1
          /\ SubSeq(events', 1, Len(events)) = events
          /\ events'[Len(events')][2] = time + read_varlen(data, pos).value]_vars

\* the End-of-Track meta event
IsEndOfTrack(ev) == ev[1] = "meta" /\ ev[3] = 47

\* C19: when the last event of the input track is End-of-Track, the track
\* tag_file built ends with that End-of-Track event too.
EndOfTrackStaysLast ==
    (TagEncoded /\ events # << >> /\ IsEndOfTrack(events[Len(events)]))
    => /\ Reparsed.ok
       /\ Reparsed.events # << >>
       /\ Reparsed.events[Len(Reparsed.events)] = events[Len(events)]

\* the result r of a run of tag_file: success, and the bytes of file
SameFileAgain(r) == r.outcome = "ok" /\ r.file = file

\* C20: when tag_file has succeeded and written the file, tag_file on that
\* file under the same name succeeds and leaves the same bytes.
TaggingIdempotent ==
    (pc = "tag_done" /\ ret.ok /\ ~dry_run)
    => SameFileAgain(tag_file(stem, file, FALSE))

\* a first run that rewrote the file-level event and added the leadsheet
\* event
TaggingIdempotentWitness ==
    /\ pc = "tag_done" /\ ret.ok /\ ~dry_run
    /\ file_meta_updated /\ ~has_leadsheet
    /\ Len(events) = 3
    /\ file # data
    /\ tag_file(stem, file, FALSE).msg.leadsheet = "existing"

----------------------------------------------------------------------------
(* The three parser loops under the scheduling of a sequential program:    *)
(* the statement that can run next does run.  parse_events starts at any   *)
(* pos <= end of its buffer; parse_notes and parse_midi_track start where  *)
(* their callers start them.                                               *)

MaxLoopRecords == 2

\* pieces of track payload for parse_events; a start inside a piece gives
\* the damaged records
LoopPool ==
    { <<0, 144, 60, 100>>,        \* delta 0, note-on pitch 60 velocity 100
      <<10, 60, 0>>,              \* delta 10, no status byte: data bytes 60, 0
      <<0, 241>>,                 \* status 0xF1
      <<129, 0, 192, 5>>,         \* delta 128 (two-byte VLQ), program change 5
      <<0, 255, 1, 2, 72, 105>>,  \* text meta "Hi"
      <<0, 240, 1, 247>> }        \* sysex with a one-byte payload

LoopTracks(n) == UNION { { Concat(c) : c \in [1..k -> LoopPool] } : k \in 0..n }

\* parse_events(data, pos, end) for every pos <= end, end up to one past
\* the buffer
InitParseAt ==
    /\ pc = "parse"
    /\ track \in LoopTracks(MaxLoopRecords)
    /\ data = track
    /\ pos \in 0..Len(track)
    /\ end \in pos..(Len(track) + 1)
    /\ time = 0
    /\ last_status = 0
    /\ events = << >>
    /\ encoded = << >>
    /\ IdleVlq
    /\ IdleTag
    /\ IdleNotes
    /\ IdleAiff
    /\ IdleMain
    /\ IdleSequ
    /\ IdleMidiTrack

InitNotesAt ==
    /\ pc = "notes_start"
    /\ file \in NotesFiles(MaxLoopRecords)
    /\ tpos = 0 /\ active = << >> /\ notes = << >> /\ nret = <<"none">>
    /\ stem = "" /\ dry_run = FALSE /\ header = << >> /\ ppq = 0
    /\ num_bars = 0 /\ new_events = << >> /\ has_leadsheet = FALSE
    /\ file_meta_updated = FALSE /\ track_bytes = << >> /\ new_data = << >>
    /\ ret = <<"none">>
    /\ IdleVlq
    /\ IdleCodec
    /\ IdleAiff
    /\ IdleMain
    /\ IdleSequ
    /\ IdleMidiTrack

InitMidiTrackAt ==
    /\ pc = "mtrk_loop"
    /\ data \in MidiTracks(MaxLoopRecords)
    /\ pos = 0
    /\ tick = 0
    /\ events = << >>
    /\ running_status = 0
    /\ pending_delta = 0
    /\ track = << >> /\ end = 0 /\ time = 0 /\ last_status = 0 /\ encoded = << >>
    /\ IdleVlq
    /\ IdleTag
    /\ IdleNotes
    /\ IdleAiff
    /\ IdleMain
    /\ IdleSequ

InitParsers == InitParseAt \/ InitNotesAt \/ InitMidiTrackAt

NextParsers ==
    \/ ParseMeta \/ ParseSysex \/ ParseStatus \/ ParseRunning
    \/ ParseRaise \/ ParseReturn
    \/ NotesOpen \/ NotesOpenRaise
    \/ NotesMeta \/ NotesSysex \/ NotesStatus \/ NotesRunning \/ NotesRaise
    \/ NotesClose \/ NotesCloseRaise
    \/ MtrkMeta \/ MtrkSysex \/ MtrkStatus \/ MtrkRunning \/ MtrkRaise
    \/ MtrkBreak \/ MtrkReturn

SpecParsers == InitParsers /\ [][NextParsers]_vars /\ WF_vars(NextParsers)

\* the parser has returned or raised
ParserLeft ==
    pc \in {"parsed", "raised", "notes_done", "notes_raised",
            "mtrk_done", "mtrk_raised"}

\* an iteration that stays in the loop moves the read position forward by
\* at least one byte
LoopAdvances ==
    /\ (pc = "parse" /\ pc' = "parse") => pos' >= pos + 1
    /\ (pc = "notes_loop" /\ pc' = "notes_loop") => tpos' >= tpos + 1
    /\ (pc = "mtrk_loop" /\ pc' = "mtrk_loop") => pos' >= pos + 1

\* C21: every iteration of the loops of parse_events, parse_notes and
\* parse_midi_track moves the read position forward by at least one byte,
\* on the branches that append nothing too, and every run of a parser
\* comes to return or to raise.
ParserTermination == [][LoopAdvances]_vars /\ <>ParserLeft

\* parse_events raised after a status byte 0xF1 and two data bytes under it:
\* three iterations that appended nothing, each one byte or more further on
ParserTerminationWitness ==
    /\ pc = "raised"
    /\ data = <<0, 241, 10, 60, 0>>
    /\ end = 5
    /\ pos = 4
    /\ time = 70
    /\ last_status = 241
    /\ events = << >>

=============================================================================
